---- MODULE Spec2Model ----
\* The request policy pipeline of the healthcare API server:
\*   server.ts            app.use(rateLimiter); app.use(auditLogger); routers
\*   middleware/rateLimiter.ts   tiered rate limiting (rate-limiter-flexible)
\*   middleware/auth.ts          authenticateToken, requirePermission, requireRole
\* The server is a single Node.js process: one callback runs at a time, promise
\* continuations (microtasks) run before the next event-loop task, and requests
\* interleave only where a handler awaits real I/O (the database).
EXTENDS Integers, Sequences, FiniteSets, TLC

VARIABLES
    now,        \* Date.now(), in milliseconds since the process started
    ticks,      \* how many times the clock has been advanced
    arrivals,   \* how many requests have been accepted so far
    store,      \* the RateLimiterMemory records: [category][clientId]
    req,        \* the requests in flight, one record per slot
    running,    \* the slot whose callback chain is executing, or 0
    passed,     \* per [category][clientId]: requests rateLimiter handed to next()
                \* since the key's current window opened
    denied,     \* the same for the requests it answered 429
    blocked,    \* per [category][clientId]: the 429s of the current window:
                \* when the first was sent, the reset time it announced, and
                \* the Retry-After of the latest
    lastActivity, \* app_users.last_activity per user
    fin,        \* input of the pure function under check
    fout,       \* its output
    login,      \* loginRateLimiter: its records per identifier, and per
                \* identifier the checkLoginRateLimit calls counted in the
                \* current window since the last reset, and the latest result
    claimsTable, \* the rows of the claims table
    processing  \* the processClaim calls in flight

vars == <<now, ticks, arrivals, store, req, running, passed, denied, blocked,
          lastActivity, fin, fout, login, claimsTable, processing>>

----------------------------------------------------------------------------
\* Bounds of the model.

MaxRequests == 2       \* requests accepted in the full pipeline specification
MaxOver == 3           \* requests accepted for a key beyond its limiter's points
MaxTicks == 3          \* clock advances
MaxFrags == 3          \* path fragments concatenated in the path specification
MaxSegs == 3           \* path fragments of the requests the classifier is given

\* Two requests are in flight at once.
Slots == {1, 2}

\* Clock steps in milliseconds: just short of half a second, the rest of a
\* minute, a minute, and the rest of a quarter of an hour.
TickSteps == {400, 59600, 60000, 780000}

----------------------------------------------------------------------------
\* Strings the code searches are sequences of characters.

sAuth      == <<"/","a","u","t","h">>
sAdmin     == <<"/","a","d","m","i","n">>
sSearch    == <<"/","s","e","a","r","c","h">>
sMembers   == <<"/","m","e","m","b","e","r","s">>
sProviders == <<"/","p","r","o","v","i","d","e","r","s">>
sClaims    == <<"/","c","l","a","i","m","s">>
sPlans     == <<"/","p","l","a","n","s">>
sEmployers == <<"/","e","m","p","l","o","y","e","r","s">>
sReports   == <<"/","r","e","p","o","r","t","s">>
sHealth    == <<"/","h","e","a","l","t","h">>
sApi       == <<"/","a","p","i">>
sSlash     == <<"/">>
sX         == <<"x">>

\* String.prototype.includes
Includes(s, pat) ==
    \E i \in 1..(Len(s) - Len(pat) + 1) : SubSeq(s, i, i + Len(pat) - 1) = pat

\* Express mount-path match: the path is the mount path or continues it with "/"
MountedAt(s, mount) ==
    /\ Len(s) >= Len(mount)
    /\ SubSeq(s, 1, Len(mount)) = mount
    /\ (Len(s) = Len(mount) \/ s[Len(mount) + 1] = "/")

----------------------------------------------------------------------------
\* middleware/rateLimiter.ts

Cats == {"general", "auth", "search", "admin"}

rateLimiters ==
    [general |-> [points |-> 100, duration |-> 60,  blockDuration |-> 60],
     auth    |-> [points |-> 5,   duration |-> 900, blockDuration |-> 900],
     search  |-> [points |-> 30,  duration |-> 60,  blockDuration |-> 60],
     admin   |-> [points |-> 20,  duration |-> 60,  blockDuration |-> 120]]

NoUser == "-"
Users == {"u1", "u2", "u3"}
Ips == {"10.0.0.1", "10.0.0.2"}
NoIp == "-"

ClientIds == ({"user"} \X Users) \cup ({"ip"} \X (Ips \cup {"unknown"}))

\* getClientId: req.user?.userId, else req.ip || remoteAddress || 'unknown'
getClientId(user, ip, remoteAddress) ==
    IF user # NoUser THEN <<"user", user>>
    ELSE IF ip # NoIp THEN <<"ip", ip>>
    ELSE IF remoteAddress # NoIp THEN <<"ip", remoteAddress>>
    ELSE <<"ip", "unknown">>

\* Faulty variant: '/admin/' is looked for before '/auth/'.
getRateLimiter_AdminFirst(path) ==
    IF Includes(path, sAdmin \o sSlash) THEN "admin"
    ELSE IF Includes(path, sAuth \o sSlash) THEN "auth"
    ELSE IF \/ Includes(path, sSearch)
            \/ Includes(path, sMembers)
            \/ Includes(path, sProviders) THEN "search"
    ELSE "general"

\* getRateLimiter: the first match wins
getRateLimiter(path) ==
    IF Includes(path, sAuth \o sSlash) THEN "auth"
    ELSE IF Includes(path, sAdmin \o sSlash) THEN "admin"
    ELSE IF \/ Includes(path, sSearch)
            \/ Includes(path, sMembers)
            \/ Includes(path, sProviders) THEN "search"
    ELSE "general"

\* ---- rate-limiter-flexible: RateLimiterMemory over MemoryStorage ----
\* A record of the storage; value = 0 stands for "no record under this key".
Absent == [value |-> 0, expiresAt |-> 0]

Max(a, b) == IF a >= b THEN a ELSE b

\* MemoryStorage.set(key, value, durationSec): a new record expiring after the
\* duration, answered with RateLimiterRes(0, durationMs, value, true)
StorageSet(value, durationSec, t) ==
    [rec |-> [value |-> value, expiresAt |-> t + durationSec * 1000],
     res |-> [remainingPoints |-> 0, msBeforeNext |-> durationSec * 1000,
              consumedPoints |-> value]]

\* MemoryStorage.incrby(key, 1, durationSec): add to a live record, else set
StorageIncrby(rec, durationSec, t) ==
    IF rec.value > 0 /\ rec.expiresAt - t > 0
    THEN [rec |-> [rec EXCEPT !.value = rec.value + 1],
          res |-> [remainingPoints |-> 0, msBeforeNext |-> rec.expiresAt - t,
                   consumedPoints |-> rec.value + 1]]
    ELSE StorageSet(1, durationSec, t)

\* RateLimiterMemory.consume(key): one point; rejected once over the points,
\* and the key is blocked (set anew for blockDuration) only the first time
ConsumeWith(cfg, rec, t) ==
    LET inc  == StorageIncrby(rec, cfg.duration, t)
        res1 == [inc.res EXCEPT
                   !.remainingPoints = Max(cfg.points - inc.res.consumedPoints, 0)]
    IN  IF res1.consumedPoints > cfg.points
        THEN IF cfg.blockDuration > 0 /\ res1.consumedPoints <= cfg.points + 1
             THEN LET blk == StorageSet(res1.consumedPoints, cfg.blockDuration, t)
                  IN  [ok |-> FALSE, rec |-> blk.rec, res |-> blk.res]
             ELSE [ok |-> FALSE, rec |-> inc.rec, res |-> res1]
        ELSE [ok |-> TRUE, rec |-> inc.rec, res |-> res1]

Consume(cat, rec, t) == ConsumeWith(rateLimiters[cat], rec, t)

\* Math.round(ms / 1000) for ms >= 0
RoundSeconds(ms) == (ms + 500) \div 1000

\* ---- loginRateLimiter, a RateLimiterMemory of its own ----
loginRateLimiter == [points |-> 5, duration |-> 900, blockDuration |-> 900]
LoginIds == {"alice", "bob"}
NoLogin == [store |-> [id \in LoginIds |-> Absent],
            calls |-> [id \in LoginIds |-> 0],
            last  |-> [id \in LoginIds |-> "none"]]

\* ---- controllers/claimsController.ts: the claims table, processClaim ----
ClaimIds == {"c1"}
NoClaims == [id \in ClaimIds |-> [claim_status |-> "NONE", allowed_amount |-> 0,
                                  paid_amount |-> 0, writes |-> 0]]
Callers == {1, 2}
NoCall == [pc |-> "idle", id |-> "c1", status |-> "", allowedAmount |-> 0,
           paidAmount |-> 0, found |-> "", result |-> 0]
NoCalls == [c \in Callers |-> NoCall]

----------------------------------------------------------------------------
\* The requests.

NoRes == [remainingPoints |-> 0, msBeforeNext |-> 0, consumedPoints |-> 0]
NoHeaders == [limit |-> -1, remaining |-> -1, reset |-> -1, retryAfter |-> -1]
NoBlock == [at |-> -1, until |-> -1, retry |-> -1]

\* dbError: which of authenticateToken's queries threw, if any. unblocked: the
\* request was counted when an earlier block of its key had run out. url:
\* req.url, which req.path is read from. post: what the 'finish' listener of
\* auditLogger did; diag: what it wrote with logger.error.
IdleReq ==
    [pc |-> "idle", path |-> <<>>, ip |-> NoIp, token |-> "none", guard |-> "none",
     user |-> NoUser, clientId |-> <<"ip", "unknown">>, limiter |-> "general",
     ok |-> FALSE, res |-> NoRes, headers |-> NoHeaders, dbError |-> "none",
     unblocked |-> FALSE, log |-> <<>>,
     method |-> "GET", url |-> <<>>, post |-> <<>>, diag |-> <<>>]

\* What a middleware did for a request: called next(), or sent a response.
EvNext(mw) == [mw |-> mw, ev |-> "next", status |-> 0, info |-> ""]
EvSend(mw, status, msg) == [mw |-> mw, ev |-> "send", status |-> status, info |-> msg]
\* utils/logger auditLog(tag, userId, details): an audit entry is emitted
auditLog(mw, tag, userId) == [mw |-> mw, ev |-> tag, status |-> 0, info |-> userId]

Init ==
    /\ now = 0
    /\ ticks = 0
    /\ arrivals = 0
    /\ store = [c \in Cats |-> [k \in ClientIds |-> Absent]]
    /\ req = [r \in Slots |-> IdleReq]
    /\ running = 0
    /\ passed = [c \in Cats |-> [k \in ClientIds |-> 0]]
    /\ denied = [c \in Cats |-> [k \in ClientIds |-> 0]]
    /\ blocked = [c \in Cats |-> [k \in ClientIds |-> NoBlock]]
    /\ lastActivity = [u \in Users |-> -1]
    /\ login = NoLogin
    /\ claimsTable = NoClaims
    /\ processing = NoCalls
    /\ fin = <<>>
    /\ fout = ""

\* The event loop takes a request off the network: an express request has no
\* req.user until a middleware sets it. The first free slot takes it. A key
\* that is already MaxOver over its points gets no further request until its
\* record has expired.
ArriveWith(r, path, ip, token, guard, method) ==
    /\ running = 0
    /\ req[r].pc = "idle"
    /\ \A q \in Slots : q < r => req[q].pc # "idle"
    /\ LET cat == getRateLimiter(path)
           rec == store[cat][getClientId(NoUser, ip, ip)]
       IN  rec.value < rateLimiters[cat].points + MaxOver \/ now >= rec.expiresAt
    /\ req' = [req EXCEPT ![r] = [IdleReq EXCEPT !.pc = "rateLimiter", !.path = path,
                                   !.ip = ip, !.token = token, !.guard = guard,
                                   !.method = method, !.url = path]]
    /\ running' = r
    /\ UNCHANGED <<now, ticks, store, passed, denied, blocked, lastActivity,
                   fin, fout,
                   login, claimsTable, processing>>

Arrive(r, path, ip, token, guard) == ArriveWith(r, path, ip, token, guard, "GET")

\* rateLimiter, up to its await: the client id, the limiter, and consume(),
\* which runs to completion inside the promise executor. A consume that opens
\* a new window starts the key's counts anew.
RateLimiterConsume(r) ==
    /\ running = r
    /\ req[r].pc = "rateLimiter"
    /\ LET clientId == getClientId(req[r].user, req[r].ip, req[r].ip)
           limiter  == getRateLimiter(req[r].path)
           c        == Consume(limiter, store[limiter][clientId], now)
       IN  /\ store' = [store EXCEPT ![limiter][clientId] = c.rec]
           /\ req' = [req EXCEPT ![r].pc = "rl_settled", ![r].clientId = clientId,
                                  ![r].limiter = limiter, ![r].ok = c.ok,
                                  ![r].res = c.res,
                                  ![r].unblocked =
                                      /\ blocked[limiter][clientId].at # -1
                                      /\ now >= blocked[limiter][clientId].until]
           /\ IF c.res.consumedPoints = 1
              THEN /\ passed' = [passed EXCEPT ![limiter][clientId] = 0]
                   /\ denied' = [denied EXCEPT ![limiter][clientId] = 0]
                   /\ blocked' = [blocked EXCEPT ![limiter][clientId] = NoBlock]
              ELSE UNCHANGED <<passed, denied, blocked>>
    /\ UNCHANGED <<now, ticks, arrivals, running, lastActivity, fin, fout,
                   login, claimsTable, processing>>

\* Faulty variant: the reset time is a whole block from now.
RateLimitHeaders_FromNow(q, t, retryAfter) ==
    [limit |-> rateLimiters[q.limiter].points,
     remaining |-> q.res.remainingPoints,
     reset |-> t + rateLimiters[q.limiter].blockDuration * 1000,
     retryAfter |-> retryAfter]

\* The rate-limit headers of a response sent at time t
RateLimitHeaders(q, t, retryAfter) ==
    [limit |-> rateLimiters[q.limiter].points,
     remaining |-> q.res.remainingPoints,
     reset |-> t + q.res.msBeforeNext,
     retryAfter |-> retryAfter]

\* Faulty variant: the rejection is not looked at.
RateLimiterResume_FailOpen(q, t) ==
    [q EXCEPT !.pc = "auditLogger",
              !.headers = RateLimitHeaders(q, t, -1),
              !.log = Append(@, EvNext("rateLimiter"))]

\* Faulty variant: the header reports the points consumed.
RateLimiterResume_Consumed(q, t) ==
    IF q.ok
    THEN [q EXCEPT !.pc = "auditLogger",
                   !.headers = [RateLimitHeaders(q, t, -1) EXCEPT
                                  !.remaining = q.res.consumedPoints],
                   !.log = Append(@, EvNext("rateLimiter"))]
    ELSE [q EXCEPT !.pc = "done",
                   !.headers = RateLimitHeaders(q, t, RoundSeconds(q.res.msBeforeNext)),
                   !.log = Append(@, EvSend("rateLimiter", 429, "Too Many Requests"))]

\* rateLimiter after the await, at time t: the headers and next(), or the
\* catch with its headers and the 429
RateLimiterResume(q, t) ==
    IF q.ok
    THEN [q EXCEPT !.pc = "auditLogger",
                   !.headers = RateLimitHeaders(q, t, -1),
                   !.log = Append(@, EvNext("rateLimiter"))]
    ELSE [q EXCEPT !.pc = "done",
                   !.headers = RateLimitHeaders(q, t, RoundSeconds(q.res.msBeforeNext)),
                   !.log = Append(@, EvSend("rateLimiter", 429, "Too Many Requests"))]

RateLimiterContinue(r) ==
    /\ running = r
    /\ req[r].pc = "rl_settled"
    /\ LET q == RateLimiterResume(req[r], now)
           b == blocked[q.limiter][q.clientId]
       IN  /\ req' = [req EXCEPT ![r] = q]
           /\ IF q.pc = "done"
              THEN /\ denied' = [denied EXCEPT ![q.limiter][q.clientId] = @ + 1]
                   /\ blocked' = [blocked EXCEPT ![q.limiter][q.clientId] =
                         [at    |-> IF b.at = -1 THEN now ELSE b.at,
                          until |-> IF b.at = -1 THEN q.headers.reset ELSE b.until,
                          retry |-> q.headers.retryAfter]]
                   /\ UNCHANGED passed
              ELSE /\ passed' = [passed EXCEPT ![q.limiter][q.clientId] = @ + 1]
                   /\ UNCHANGED <<denied, blocked>>
    /\ UNCHANGED <<now, ticks, arrivals, store, running, lastActivity, fin, fout,
                   login, claimsTable, processing>>

\* auditLogger, as far as the request's way to its handler goes: it wraps
\* res.send / res.json, calls next() and registers its 'finish' listener.
AuditLoggerEnter(r) ==
    /\ running = r
    /\ req[r].pc = "auditLogger"
    /\ req' = [req EXCEPT ![r].pc = "route",
                           ![r].log = Append(@, EvNext("auditLogger"))]
    /\ UNCHANGED <<now, ticks, arrivals, store, running, passed, denied, blocked,
                   lastActivity, fin, fout,
                   login, claimsTable, processing>>

\* ---- server.ts: the routes; routes/*.ts: the middleware each one stacks ----
pHealth  == sApi \o sHealth
pMembers == sApi \o sMembers
pClaims  == sApi \o sClaims
pPlans   == sApi \o sPlans
pReports == sApi \o sReports
pEmployers == sApi \o sEmployers
pPlanAuthMembers  == sApi \o sPlans \o sAuth \o sMembers
pPlanAdminMembers == sApi \o sPlans \o sAdmin \o sMembers

ApiMounts == {sApi \o sMembers, sApi \o sProviders, sApi \o sClaims,
              sApi \o sPlans, sApi \o sEmployers, sApi \o sReports}

\* The stack a routed request runs through after the app-level middleware.
\* "authed": authentication, then the handler; "perm" / "role": authentication,
\* then requirePermission / requireRole; "permOnly" / "roleOnly": the guard
\* mounted with no authentication before it; "optional": optionalAuth, then
\* the handler.
Guards == {"authed", "perm", "role", "permOnly", "roleOnly"}
requiredPermission == "members:write"
requiredRoles == {"ADMIN"}

FirstStage(guard) ==
    IF guard \in {"permOnly", "roleOnly"} THEN "guard"
    ELSE IF guard = "optional" THEN "optionalAuth"
    ELSE "authenticate"

\* express Router trim_prefix: inside a router mounted at a path, req.url is
\* the rest of the url after the mount path, with a leading '/'; it is put
\* back only when the router hands the request on with next().
trim_prefix(url, mount) ==
    LET rest == SubSeq(url, Len(mount) + 1, Len(url))
    IN  IF rest = <<>> \/ rest[1] # "/" THEN sSlash \o rest ELSE rest

Route(r) ==
    /\ running = r
    /\ req[r].pc = "route"
    /\ req' = [req EXCEPT ![r].pc =
                 IF req[r].path = pHealth /\ req[r].method = "GET" THEN "handler"
                 ELSE IF \E m \in ApiMounts : MountedAt(req[r].path, m)
                      THEN FirstStage(req[r].guard)
                      ELSE "notFound",
                           ![r].url =
                 IF req[r].path = pHealth /\ req[r].method = "GET" THEN @
                 ELSE IF \E m \in ApiMounts : MountedAt(req[r].path, m)
                      THEN trim_prefix(@, CHOOSE m \in ApiMounts :
                                              MountedAt(req[r].path, m))
                      ELSE @]
    /\ UNCHANGED <<now, ticks, arrivals, store, running, passed, denied, blocked,
                   lastActivity, fin, fout,
                   login, claimsTable, processing>>

\* ---- middleware/auth.ts ----
\* A bearer token is absent, fails jwt.verify, or decodes to a userId.
NoToken == "none"
BadToken == "bad"
UnknownUser == "u9"
Tokens == {NoToken, BadToken} \cup Users \cup {UnknownUser}

\* app_users with its roles and permissions, as the SELECT of authenticateToken
\* joins them.
appUsers ==
    [u1 |-> [is_active |-> TRUE,  roles |-> {"ADMIN"},
             permissions |-> {"members:read", "members:write"}],
     u2 |-> [is_active |-> TRUE,  roles |-> {"USER"},
             permissions |-> {"members:read"}],
     u3 |-> [is_active |-> FALSE, roles |-> {"ADMIN"},
             permissions |-> {"members:read", "members:write"}]]

\* Faulty variant: is_active is not looked at.
SelectRows_AnyUser(userId) == {u \in Users : u = userId}

\* WHERE u.user_id = $1 AND u.is_active = true
SelectRows(userId) == {u \in Users : u = userId /\ appUsers[u].is_active}

\* The catch of authenticateToken: log, audit AUTHENTICATION_FAILED, 403
AuthCatch(q) ==
    [q EXCEPT !.pc = "done",
              !.log = @ \o <<auditLog("authenticateToken", "AUTHENTICATION_FAILED",
                                      NoUser),
                             EvSend("authenticateToken", 403, "Invalid token")>>]

\* authenticateToken up to its first await: the header, jwt.verify, the SELECT
AuthenticateStart(q) ==
    IF q.token = NoToken
    THEN [q EXCEPT !.pc = "done",
                   !.log = Append(@, EvSend("authenticateToken", 401,
                                            "Access token required"))]
    ELSE IF q.token = BadToken
    THEN AuthCatch(q)
    ELSE [q EXCEPT !.pc = "db_select"]

\* authenticateToken once the SELECT has settled: it threw (dbOk = FALSE), found
\* no active user, or gave the row, and then req.user is set and the
\* last-activity UPDATE is awaited.
AuthenticateSelected(q, dbOk) ==
    IF ~dbOk THEN AuthCatch([q EXCEPT !.dbError = "select"])
    ELSE IF SelectRows(q.token) = {}
    THEN [q EXCEPT !.pc = "done",
                   !.log = Append(@, EvSend("authenticateToken", 401,
                                            "Invalid or expired token"))]
    ELSE [q EXCEPT !.pc = "db_update", !.user = q.token]

\* authenticateToken once the UPDATE has settled: next(), or the same catch as
\* for every other failure.
AuthenticateUpdated(q, dbOk) ==
    IF dbOk
    THEN [q EXCEPT !.pc = IF q.guard \in {"authed", "optional"} THEN "handler"
                          ELSE "guard",
                   !.log = Append(@, EvNext("authenticateToken"))]
    ELSE AuthCatch([q EXCEPT !.dbError = "update"])

AuthenticateToken(r) ==
    /\ running = r
    /\ req[r].pc = "authenticate"
    /\ LET q == AuthenticateStart(req[r]) IN
       /\ req' = [req EXCEPT ![r] = q]
       /\ running' = IF q.pc = "db_select" THEN 0 ELSE r
    /\ UNCHANGED <<now, ticks, arrivals, store, passed, denied, blocked,
                   lastActivity, fin, fout,
                   login, claimsTable, processing>>

SelectReply(r, dbOk) ==
    /\ running = 0
    /\ req[r].pc = "db_select"
    /\ LET q == AuthenticateSelected(req[r], dbOk) IN
       /\ req' = [req EXCEPT ![r] = q]
       /\ running' = IF q.pc = "db_update" THEN 0 ELSE r
    /\ UNCHANGED <<now, ticks, arrivals, store, passed, denied, blocked,
                   lastActivity, fin, fout,
                   login, claimsTable, processing>>

UpdateReply(r, dbOk) ==
    /\ running = 0
    /\ req[r].pc = "db_update"
    /\ req' = [req EXCEPT ![r] = AuthenticateUpdated(req[r], dbOk)]
    /\ lastActivity' = IF dbOk THEN [lastActivity EXCEPT ![req[r].user] = now]
                       ELSE lastActivity
    /\ running' = r
    /\ UNCHANGED <<now, ticks, arrivals, store, passed, denied, blocked, fin, fout,
                   login, claimsTable, processing>>

\* Faulty variant: the 403 branch does not return.
requirePermission_NoReturn(q) ==
    IF q.user = NoUser
    THEN [q EXCEPT !.pc = "done",
                   !.log = Append(@, EvSend("requirePermission", 401,
                                            "Authentication required"))]
    ELSE IF requiredPermission \notin appUsers[q.user].permissions
    THEN [q EXCEPT !.pc = "handler",
                   !.log = @ \o <<auditLog("requirePermission", "PERMISSION_DENIED",
                                           q.user),
                                  EvSend("requirePermission", 403,
                                         "Insufficient permissions"),
                                  EvNext("requirePermission")>>]
    ELSE [q EXCEPT !.pc = "handler",
                   !.log = Append(@, EvNext("requirePermission"))]

\* requirePermission(requiredPermission)
requirePermission(q) ==
    IF q.user = NoUser
    THEN [q EXCEPT !.pc = "done",
                   !.log = Append(@, EvSend("requirePermission", 401,
                                            "Authentication required"))]
    ELSE IF requiredPermission \notin appUsers[q.user].permissions
    THEN [q EXCEPT !.pc = "done",
                   !.log = @ \o <<auditLog("requirePermission", "PERMISSION_DENIED",
                                           q.user),
                                  EvSend("requirePermission", 403,
                                         "Insufficient permissions")>>]
    ELSE [q EXCEPT !.pc = "handler",
                   !.log = Append(@, EvNext("requirePermission"))]

\* Faulty variant: the audit entry is written after the response.
requireRole_AuditAfter(q) ==
    IF q.user = NoUser
    THEN [q EXCEPT !.pc = "done",
                   !.log = Append(@, EvSend("requireRole", 401,
                                            "Authentication required"))]
    ELSE IF ~(\E role \in requiredRoles : role \in appUsers[q.user].roles)
    THEN [q EXCEPT !.pc = "done",
                   !.log = @ \o <<EvSend("requireRole", 403,
                                         "Insufficient role permissions"),
                                  auditLog("requireRole", "ROLE_ACCESS_DENIED",
                                           q.user)>>]
    ELSE [q EXCEPT !.pc = "handler",
                   !.log = Append(@, EvNext("requireRole"))]

\* requireRole(requiredRoles)
requireRole(q) ==
    IF q.user = NoUser
    THEN [q EXCEPT !.pc = "done",
                   !.log = Append(@, EvSend("requireRole", 401,
                                            "Authentication required"))]
    ELSE IF ~(\E role \in requiredRoles : role \in appUsers[q.user].roles)
    THEN [q EXCEPT !.pc = "done",
                   !.log = @ \o <<auditLog("requireRole", "ROLE_ACCESS_DENIED",
                                           q.user),
                                  EvSend("requireRole", 403,
                                         "Insufficient role permissions")>>]
    ELSE [q EXCEPT !.pc = "handler",
                   !.log = Append(@, EvNext("requireRole"))]

RequirePermission(r) ==
    /\ running = r
    /\ req[r].pc = "guard"
    /\ req[r].guard \in {"perm", "permOnly"}
    /\ req' = [req EXCEPT ![r] = requirePermission(req[r])]
    /\ UNCHANGED <<now, ticks, arrivals, store, running, passed, denied, blocked,
                   lastActivity, fin, fout,
                   login, claimsTable, processing>>

RequireRole(r) ==
    /\ running = r
    /\ req[r].pc = "guard"
    /\ req[r].guard \in {"role", "roleOnly"}
    /\ req' = [req EXCEPT ![r] = requireRole(req[r])]
    /\ UNCHANGED <<now, ticks, arrivals, store, running, passed, denied, blocked,
                   lastActivity, fin, fout,
                   login, claimsTable, processing>>

\* The business handler (out of scope): it runs and answers.
Handler(r) ==
    /\ running = r
    /\ req[r].pc = "handler"
    /\ req' = [req EXCEPT ![r].pc = "done",
                           ![r].log = Append(@, EvSend("handler", 200, "ok"))]
    /\ UNCHANGED <<now, ticks, arrivals, store, running, passed, denied, blocked,
                   lastActivity, fin, fout,
                   login, claimsTable, processing>>

\* The response is out: the callback returns to the event loop and the
\* request is over.
Finish(r) ==
    /\ running = r
    /\ req[r].pc = "done"
    /\ req' = [req EXCEPT ![r] = IdleReq]
    /\ running' = 0
    /\ UNCHANGED <<now, ticks, arrivals, store, passed, denied, blocked,
                   lastActivity, fin, fout,
                   login, claimsTable, processing>>

\* Time passes between callbacks.
Tick(d) ==
    /\ running = 0
    /\ ticks < MaxTicks
    /\ now' = now + d
    /\ ticks' = ticks + 1
    /\ UNCHANGED <<arrivals, store, req, running, passed, denied, blocked,
                   lastActivity, fin, fout,
                   login, claimsTable, processing>>

\* MemoryStorage.set's setTimeout: the record is deleted once its time is over.
TimerFire(cat, id) ==
    /\ running = 0
    /\ store[cat][id].value > 0
    /\ now >= store[cat][id].expiresAt
    /\ store' = [store EXCEPT ![cat][id] = Absent]
    /\ UNCHANGED <<now, ticks, arrivals, req, running, passed, denied, blocked,
                   lastActivity, fin, fout,
                   login, claimsTable, processing>>

----------------------------------------------------------------------------
\* The whole pipeline: requests from two addresses, with every kind of token,
\* to endpoints of each kind of stack. The clock matters to the limiter only;
\* the specifications of the limiter advance it.
Endpoints ==
    {<<pHealth, "authed">>, <<pPlans, "authed">>, <<pMembers, "role">>,
     <<pClaims, "perm">>, <<pReports, "roleOnly">>, <<pEmployers, "permOnly">>}

ArriveAny ==
    /\ arrivals < MaxRequests
    /\ arrivals' = arrivals + 1
    /\ \E r \in Slots, e \in Endpoints, ip \in Ips, token \in Tokens :
           Arrive(r, e[1], ip, token, e[2])

Step ==
    \E r \in Slots :
        \/ RateLimiterConsume(r)
        \/ RateLimiterContinue(r)
        \/ AuditLoggerEnter(r)
        \/ Route(r)
        \/ AuthenticateToken(r)
        \/ RequirePermission(r)
        \/ RequireRole(r)
        \/ Handler(r)
        \/ Finish(r)

DbReply ==
    \E r \in Slots, dbOk \in BOOLEAN :
        \/ SelectReply(r, dbOk)
        \/ UpdateReply(r, dbOk)

Next == ArriveAny \/ Step \/ DbReply

Spec == Init /\ [][Next]_vars

----------------------------------------------------------------------------
\* The rate limiter over time: unauthenticated requests from one address to an
\* endpoint of the plans router that falls in the auth category. None of them
\* awaits I/O, so each is answered before the next is taken up.
ArriveRate ==
    /\ Arrive(1, pPlanAuthMembers, "10.0.0.1", NoToken, "authed")
    /\ UNCHANGED arrivals

\* The same for an endpoint in the admin category, whose block outlasts its
\* window.
ArriveAdmin ==
    /\ Arrive(1, pPlanAdminMembers, "10.0.0.1", NoToken, "authed")
    /\ UNCHANGED arrivals

RateStep ==
    \E r \in Slots :
        \/ RateLimiterConsume(r)
        \/ RateLimiterContinue(r)
        \/ AuditLoggerEnter(r)
        \/ Route(r)
        \/ AuthenticateToken(r)
        \/ Finish(r)

Clock == \E d \in TickSteps : Tick(d)

Timers == \E cat \in Cats, id \in ClientIds : TimerFire(cat, id)

NextRate == ArriveRate \/ RateStep \/ Clock \/ Timers

SpecRate == Init /\ [][NextRate]_vars

NextAdmin == ArriveAdmin \/ RateStep \/ Clock \/ Timers

SpecAdmin == Init /\ [][NextAdmin]_vars

\* A burst on one key: requests from one address to the auth-category
\* endpoint, with every kind of token and behind every kind of stack, all
\* within one millisecond, so within one window of the limiter. Those that
\* await the database are in flight together.
ArriveBurst ==
    /\ \E r \in Slots, token \in Tokens, guard \in Guards :
           Arrive(r, pPlanAuthMembers, "10.0.0.1", token, guard)
    /\ UNCHANGED arrivals

NextBurst == ArriveBurst \/ Step \/ DbReply

SpecBurst == Init /\ [][NextBurst]_vars

----------------------------------------------------------------------------
\* The category of a path, for every path built of up to MaxFrags fragments.
Frags == {sAuth, sAdmin, sSearch, sMembers, sProviders, sSlash, sApi, sX}

RECURSIVE PathsOf(_)
PathsOf(n) ==
    IF n = 0 THEN {<<>>}
    ELSE LET P == PathsOf(n - 1) IN P \cup {p \o f : p \in P, f \in Frags}

InitPath ==
    /\ now = 0
    /\ ticks = 0
    /\ arrivals = 0
    /\ store = [c \in Cats |-> [k \in ClientIds |-> Absent]]
    /\ req = [r \in Slots |-> IdleReq]
    /\ running = 0
    /\ passed = [c \in Cats |-> [k \in ClientIds |-> 0]]
    /\ denied = [c \in Cats |-> [k \in ClientIds |-> 0]]
    /\ blocked = [c \in Cats |-> [k \in ClientIds |-> NoBlock]]
    /\ lastActivity = [u \in Users |-> -1]
    /\ login = NoLogin
    /\ claimsTable = NoClaims
    /\ processing = NoCalls
    /\ fin \in PathsOf(MaxFrags)
    /\ fout = ""

SelectLimiter ==
    /\ fout = ""
    /\ fout' = getRateLimiter(fin)
    /\ UNCHANGED <<now, ticks, arrivals, store, req, running, passed, denied,
                   blocked, lastActivity, fin,
                   login, claimsTable, processing>>

SpecPath == InitPath /\ [][SelectLimiter]_vars

----------------------------------------------------------------------------
\* routes/planRoutes.ts, from line 607: the audit logger's view of a request.

sUsers == <<"/","u","s","e","r","s">>

Methods == {"GET", "POST", "PUT", "PATCH", "DELETE"}

\* req.body: none, or an object with or without a social-security field
NoBody == [present |-> FALSE, ssn |-> FALSE, social_security_number |-> FALSE]
Bodies ==
    {NoBody,
     [present |-> TRUE, ssn |-> FALSE, social_security_number |-> FALSE],
     [present |-> TRUE, ssn |-> TRUE,  social_security_number |-> FALSE],
     [present |-> TRUE, ssn |-> FALSE, social_security_number |-> TRUE]}

\* Faulty variant: authenticated requests are not audited as such.
shouldAuditRequest_NoUserRule(user, method, path) ==
    IF Includes(path, sAuth \o sSlash) THEN TRUE
    ELSE IF Includes(path, sAdmin \o sSlash) THEN TRUE
    ELSE IF method \in {"POST", "PUT", "PATCH", "DELETE"} THEN TRUE
    ELSE \E endpoint \in {sMembers \o sSlash, sClaims \o sSlash, sProviders \o sSlash} :
             Includes(path, endpoint)

\* shouldAuditRequest(req), of req.user, req.method and req.path
shouldAuditRequest(user, method, path) ==
    IF user # NoUser THEN TRUE
    ELSE IF Includes(path, sAuth \o sSlash) THEN TRUE
    ELSE IF Includes(path, sAdmin \o sSlash) THEN TRUE
    ELSE IF method \in {"POST", "PUT", "PATCH", "DELETE"} THEN TRUE
    ELSE \E endpoint \in {sMembers \o sSlash, sClaims \o sSlash, sProviders \o sSlash} :
             Includes(path, endpoint)

\* containsPHI(req), of req.path
containsPHI(path) ==
    \E endpoint \in {sMembers, sClaims} : Includes(path, endpoint)

getResourceType(path) ==
    IF Includes(path, sMembers) THEN "MEMBER"
    ELSE IF Includes(path, sClaims) THEN "CLAIM"
    ELSE IF Includes(path, sProviders) THEN "PROVIDER"
    ELSE IF Includes(path, sUsers) \/ Includes(path, sAuth) THEN "USER"
    ELSE IF Includes(path, sAdmin) THEN "SYSTEM"
    ELSE "UNKNOWN"

\* getPHIElements(path, body): the elements pushed, in order
getPHIElements(path, body) ==
    (IF Includes(path, sMembers)
     THEN <<"DEMOGRAPHIC", "CONTACT", "IDENTIFICATION">> \o
          (IF body.present /\ (body.ssn \/ body.social_security_number)
           THEN <<"SSN">> ELSE <<>>)
     ELSE <<>>)
    \o (IF Includes(path, sClaims) THEN <<"MEDICAL", "FINANCIAL">> ELSE <<>>)

\* The classifier applied to every request with a path of up to MaxSegs
\* fragments.
Segs == {sMembers, sClaims, sProviders, sUsers, sAuth, sAdmin, sSlash, sX}

RECURSIVE SegPaths(_)
SegPaths(n) ==
    IF n = 0 THEN {<<>>}
    ELSE LET P == SegPaths(n - 1) IN P \cup {p \o f : p \in P, f \in Segs}

NoClass == [shouldAudit |-> FALSE, containsPhi |-> FALSE, resourceType |-> "",
            phiElements |-> <<>>]

InitClassify ==
    /\ now = 0
    /\ ticks = 0
    /\ arrivals = 0
    /\ store = [c \in Cats |-> [k \in ClientIds |-> Absent]]
    /\ req = [r \in Slots |-> IdleReq]
    /\ running = 0
    /\ passed = [c \in Cats |-> [k \in ClientIds |-> 0]]
    /\ denied = [c \in Cats |-> [k \in ClientIds |-> 0]]
    /\ blocked = [c \in Cats |-> [k \in ClientIds |-> NoBlock]]
    /\ lastActivity = [u \in Users |-> -1]
    /\ login = NoLogin
    /\ claimsTable = NoClaims
    /\ processing = NoCalls
    /\ fin \in [user : {NoUser, "u1"}, method : Methods, path : SegPaths(MaxSegs),
                body : Bodies]
    /\ fout = NoClass

Classify ==
    /\ fout = NoClass
    /\ fout' = [shouldAudit  |-> shouldAuditRequest(fin.user, fin.method, fin.path),
                containsPhi  |-> containsPHI(fin.path),
                resourceType |-> getResourceType(fin.path),
                phiElements  |-> getPHIElements(fin.path, fin.body)]
    /\ UNCHANGED <<now, ticks, arrivals, store, req, running, passed, denied,
                   blocked, lastActivity, fin,
                   login, claimsTable, processing>>

SpecClassify == InitClassify /\ [][Classify]_vars

----------------------------------------------------------------------------
\* middleware/errorHandler.ts: the global error handler.

\* error.name, error.code (a string, <<>> when the error has none),
\* error.statusCode (undefinedStatus when the error has none), NODE_ENV
ErrorNames == {"ValidationError", "UnauthorizedError", "CastError", "Error"}
c23505 == <<"2", "3", "5", "0", "5">>
c23503 == <<"2", "3", "5", "0", "3">>
c23502 == <<"2", "3", "5", "0", "2">>
ErrorCodes == {<<>>, c23505, c23503, c23502, <<"2", "3", "0", "0", "0">>,
               <<"E", "2", "3">>}
undefinedStatus == 0
StatusCodes == {undefinedStatus, 302, 400, 404, 409, 500, 503}
Envs == {"production", "development", ""}
Errors == [name : ErrorNames, code : ErrorCodes, statusCode : StatusCodes,
           message : {"boom"}]

\* let { statusCode = 500, message } = error
defaultStatusCode(error) ==
    IF error.statusCode = undefinedStatus THEN 500 ELSE error.statusCode

\* error.code?.startsWith('23')
startsWith23(code) == Len(code) >= 2 /\ SubSeq(code, 1, 2) = <<"2", "3">>

classifyErrorType(error) ==
    IF error.name = "ValidationError" THEN "VALIDATION_ERROR"
    ELSE IF error.name = "UnauthorizedError" THEN "AUTHENTICATION_ERROR"
    ELSE IF startsWith23(error.code) THEN "DATABASE_ERROR"
    ELSE IF /\ error.statusCode # undefinedStatus
            /\ error.statusCode >= 400 /\ error.statusCode < 500
         THEN "CLIENT_ERROR"
    ELSE "SYSTEM_ERROR"

getSeverityLevel(statusCode) ==
    IF statusCode >= 500 THEN "HIGH"
    ELSE IF statusCode >= 400 THEN "MEDIUM"
    ELSE "LOW"

formatValidationError(error) ==
    IF error.message # "" THEN error.message ELSE "Validation failed"

\* The chain 'Handle specific error types' of errorHandler: the status and
\* message after it, of those before it.
\* Faulty variant: the storage codes are looked at before the names.
handleSpecificErrorTypes_CodeFirst(error, statusCode, message) ==
    IF error.code = c23505
    THEN [statusCode |-> 409, message |-> "Resource already exists"]
    ELSE IF error.code = c23503
    THEN [statusCode |-> 400, message |-> "Invalid reference to related resource"]
    ELSE IF error.code = c23502
    THEN [statusCode |-> 400, message |-> "Required field is missing"]
    ELSE IF error.name = "ValidationError"
    THEN [statusCode |-> 400, message |-> formatValidationError(error)]
    ELSE IF error.name = "UnauthorizedError"
    THEN [statusCode |-> 401, message |-> "Invalid credentials"]
    ELSE IF error.name = "CastError"
    THEN [statusCode |-> 400, message |-> "Invalid ID format"]
    ELSE [statusCode |-> statusCode, message |-> message]

handleSpecificErrorTypes(error, statusCode, message) ==
    IF error.name = "ValidationError"
    THEN [statusCode |-> 400, message |-> formatValidationError(error)]
    ELSE IF error.name = "UnauthorizedError"
    THEN [statusCode |-> 401, message |-> "Invalid credentials"]
    ELSE IF error.name = "CastError"
    THEN [statusCode |-> 400, message |-> "Invalid ID format"]
    ELSE IF error.code = c23505
    THEN [statusCode |-> 409, message |-> "Resource already exists"]
    ELSE IF error.code = c23503
    THEN [statusCode |-> 400, message |-> "Invalid reference to related resource"]
    ELSE IF error.code = c23502
    THEN [statusCode |-> 400, message |-> "Required field is missing"]
    ELSE [statusCode |-> statusCode, message |-> message]

\* The row of system_errors, as far as it depends on the error
NoRecord == [error_type |-> "", severity_level |-> "", fromCode |-> FALSE,
             error_code |-> <<>>, error_status |-> 0]
SystemErrorRecord(error, statusCode) ==
    [error_type     |-> classifyErrorType(error),
     severity_level |-> getSeverityLevel(statusCode),
     fromCode       |-> error.code # <<>>,
     error_code     |-> error.code,
     error_status   |-> IF error.code # <<>> THEN 0 ELSE statusCode]

\* The handler's position, its statusCode variable, the row it asked to
\* insert and the row that system_errors holds, the diagnostics it wrote, and
\* the responses it sent.
NoResponse == [status |-> 0, bodyStatus |-> 0, message |-> "", stack |-> FALSE]
ErrStart == [pc |-> "start", statusCode |-> 0, insert |-> NoRecord,
             stored |-> NoRecord, diag |-> <<>>, sent |-> 0, response |-> NoResponse]

InitError ==
    /\ now = 0
    /\ ticks = 0
    /\ arrivals = 0
    /\ store = [c \in Cats |-> [k \in ClientIds |-> Absent]]
    /\ req = [r \in Slots |-> IdleReq]
    /\ running = 0
    /\ passed = [c \in Cats |-> [k \in ClientIds |-> 0]]
    /\ denied = [c \in Cats |-> [k \in ClientIds |-> 0]]
    /\ blocked = [c \in Cats |-> [k \in ClientIds |-> NoBlock]]
    /\ lastActivity = [u \in Users |-> -1]
    /\ login = NoLogin
    /\ claimsTable = NoClaims
    /\ processing = NoCalls
    /\ fin \in [error : Errors, env : Envs]
    /\ fout = ErrStart

\* errorHandler up to the await of the INSERT in logErrorToDatabase: the
\* statusCode of line 34 is the one handed to logErrorToDatabase.
ErrorHandlerEnter ==
    /\ fout.pc = "start"
    /\ LET statusCode == defaultStatusCode(fin.error)
       IN  fout' = [fout EXCEPT !.pc = "db_insert", !.statusCode = statusCode,
                                !.diag = Append(@, "API Error:"),
                                !.insert = SystemErrorRecord(fin.error, statusCode)]
    /\ UNCHANGED <<now, ticks, arrivals, store, req, running, passed, denied,
                   blocked, lastActivity, fin,
                   login, claimsTable, processing>>

\* The INSERT INTO system_errors settles: the row is stored, or the query
\* rejects and logErrorToDatabase's catch writes a diagnostic.
\* Faulty variant: the rejection is not caught and ends the handler.
SystemErrorsReply_Rethrow(dbOk) ==
    /\ fout.pc = "db_insert"
    /\ fout' = IF dbOk
               THEN [fout EXCEPT !.pc = "logged", !.stored = fout.insert]
               ELSE [fout EXCEPT !.pc = "raised",
                                 !.diag = Append(@, "Database error logging failed:")]
    /\ UNCHANGED <<now, ticks, arrivals, store, req, running, passed, denied,
                   blocked, lastActivity, fin,
                   login, claimsTable, processing>>

SystemErrorsReply(dbOk) ==
    /\ fout.pc = "db_insert"
    /\ fout' = IF dbOk
               THEN [fout EXCEPT !.pc = "logged", !.stored = fout.insert]
               ELSE [fout EXCEPT !.pc = "logged",
                                 !.diag = Append(@, "Database error logging failed:")]
    /\ UNCHANGED <<now, ticks, arrivals, store, req, running, passed, denied,
                   blocked, lastActivity, fin,
                   login, claimsTable, processing>>

\* errorHandler after the await: the chain, the production message, the
\* response body and res.status(statusCode).json(response)
ErrorHandlerRespond ==
    /\ fout.pc = "logged"
    /\ LET h == handleSpecificErrorTypes(fin.error, fout.statusCode, fin.error.message)
           message == IF fin.env = "production" /\ h.statusCode = 500
                      THEN "Internal server error occurred"
                      ELSE h.message
       IN  fout' = [fout EXCEPT !.pc = "sent", !.statusCode = h.statusCode,
                                !.sent = @ + 1,
                                !.response = [status     |-> h.statusCode,
                                              bodyStatus |-> h.statusCode,
                                              message    |-> message,
                                              stack      |-> fin.env = "development"]]
    /\ UNCHANGED <<now, ticks, arrivals, store, req, running, passed, denied,
                   blocked, lastActivity, fin,
                   login, claimsTable, processing>>

NextError ==
    \/ ErrorHandlerEnter
    \/ \E dbOk \in BOOLEAN : SystemErrorsReply(dbOk)
    \/ ErrorHandlerRespond

SpecError == InitError /\ [][NextError]_vars

\* The event loop runs errorHandler's code whenever it is ready to run;
\* nothing makes the INSERT INTO system_errors settle.
SpecErrorFair ==
    /\ InitError /\ [][NextError]_vars
    /\ WF_vars(ErrorHandlerEnter) /\ WF_vars(ErrorHandlerRespond)

----------------------------------------------------------------------------
\* auditLogger's 'finish' listener: what is recorded once a response is out.
\* The listener reads req.user, req.method and req.path when it runs, i.e.
\* after the routers have set req.user and trimmed req.url. The requests are
\* those the server has a route for: GET /api/health, and GET or POST to the
\* routers, whose first middleware is authenticate.

pPlanMembers == sApi \o sPlans \o sSlash \o sX \o sMembers

AuditEndpoints ==
    {<<pHealth, "authed">>, <<pPlans, "authed">>, <<pMembers, "authed">>,
     <<pPlanMembers, "authed">>}
AuditTokens == {NoToken, BadToken, "u1"}
AuditMethods == {"GET", "POST"}

ArriveAudit ==
    /\ arrivals < MaxRequests
    /\ arrivals' = arrivals + 1
    /\ \E r \in Slots, e \in AuditEndpoints, token \in AuditTokens,
          method \in AuditMethods :
           /\ e[1] = pHealth => method = "GET"
           /\ ArriveWith(r, e[1], "10.0.0.1", token, e[2], method)

\* auditLogger has registered its listener: it does so right after next().
ListenerRegistered(q) ==
    \E i \in 1..Len(q.log) : q.log[i] = EvNext("auditLogger")

\* logPHIAccess up to its await: nothing without req.user, else the INSERT
\* INTO phi_access_log is issued.
\* Faulty variant: req.user is not looked at.
logPHIAccess_NoUserCheck(q) ==
    [q EXCEPT !.pc = "phi_insert", !.post = Append(@, "phi_attempt")]

logPHIAccess(q) ==
    IF q.user = NoUser
    THEN [q EXCEPT !.pc = "listened"]
    ELSE [q EXCEPT !.pc = "phi_insert", !.post = Append(@, "phi_attempt")]

\* The listener from 'Log PHI access if applicable' on
AfterAudit(q) ==
    IF containsPHI(q.url) THEN logPHIAccess(q) ELSE [q EXCEPT !.pc = "listened"]

\* The listener up to its first await: logAuditEvent issues the INSERT INTO
\* audit_log if the request should be audited.
FinishListener(q) ==
    LET q1 == [q EXCEPT !.post = Append(@, "finish")]
    IN  IF shouldAuditRequest(q1.user, q1.method, q1.url)
        THEN [q1 EXCEPT !.pc = "audit_insert", !.post = Append(@, "audit_attempt")]
        ELSE AfterAudit(q1)

\* logAuditEvent once its INSERT has settled, and the listener after it.
\* Faulty variant: a failed INSERT is issued once more.
logAuditEventSettled_Retry(q, dbOk) ==
    IF dbOk
    THEN AfterAudit([q EXCEPT !.post = Append(@, "audit_stored")])
    ELSE IF \E i \in 1..Len(q.post) : q.post[i] = "audit_failed"
    THEN AfterAudit([q EXCEPT !.post = Append(@, "audit_failed"),
                              !.diag = Append(@, "Failed to insert audit log:")])
    ELSE [q EXCEPT !.post = @ \o <<"audit_failed", "audit_attempt">>,
                   !.diag = Append(@, "Failed to insert audit log:")]

logAuditEventSettled(q, dbOk) ==
    IF dbOk
    THEN AfterAudit([q EXCEPT !.post = Append(@, "audit_stored")])
    ELSE AfterAudit([q EXCEPT !.post = Append(@, "audit_failed"),
                              !.diag = Append(@, "Failed to insert audit log:")])

\* logPHIAccess once its INSERT has settled: the listener is over.
logPHIAccessSettled(q, dbOk) ==
    IF dbOk
    THEN [q EXCEPT !.pc = "listened", !.post = Append(@, "phi_stored")]
    ELSE [q EXCEPT !.pc = "listened", !.post = Append(@, "phi_failed"),
                   !.diag = Append(@, "Failed to log PHI access:")]

\* The middleware that answered returns to the event loop; the response is on
\* its way to the socket.
HandlerReturn(r) ==
    /\ running = r
    /\ req[r].pc = "done"
    /\ req' = [req EXCEPT ![r].pc = "responding"]
    /\ running' = 0
    /\ UNCHANGED <<now, ticks, arrivals, store, passed, denied, blocked,
                   lastActivity, fin, fout,
                   login, claimsTable, processing>>

\* The response has been handed to the operating system: 'finish' is emitted
\* and the listener, if auditLogger registered one, runs up to its first await.
ResponseFinish(r) ==
    /\ running = 0
    /\ req[r].pc = "responding"
    /\ req' = [req EXCEPT ![r] = IF ListenerRegistered(req[r])
                                  THEN FinishListener(req[r])
                                  ELSE [req[r] EXCEPT !.pc = "listened"]]
    /\ UNCHANGED <<now, ticks, arrivals, store, running, passed, denied, blocked,
                   lastActivity, fin, fout,
                   login, claimsTable, processing>>

\* The client went away before the response was flushed: the response emits
\* 'close' and never 'finish'. Nothing listens for 'close'.
ResponseClose(r) ==
    /\ running = 0
    /\ req[r].pc = "responding"
    /\ req' = [req EXCEPT ![r].pc = "closed"]
    /\ UNCHANGED <<now, ticks, arrivals, store, running, passed, denied, blocked,
                   lastActivity, fin, fout,
                   login, claimsTable, processing>>

\* await query(INSERT INTO audit_log ...) settles
AuditInsertReply(r, dbOk) ==
    /\ running = 0
    /\ req[r].pc = "audit_insert"
    /\ req' = [req EXCEPT ![r] = logAuditEventSettled(req[r], dbOk)]
    /\ UNCHANGED <<now, ticks, arrivals, store, running, passed, denied, blocked,
                   lastActivity, fin, fout,
                   login, claimsTable, processing>>

\* await query(INSERT INTO phi_access_log ...) settles
PhiInsertReply(r, dbOk) ==
    /\ running = 0
    /\ req[r].pc = "phi_insert"
    /\ req' = [req EXCEPT ![r] = logPHIAccessSettled(req[r], dbOk)]
    /\ UNCHANGED <<now, ticks, arrivals, store, running, passed, denied, blocked,
                   lastActivity, fin, fout,
                   login, claimsTable, processing>>

\* Nothing of the request is left to run.
Release(r) ==
    /\ running = 0
    /\ req[r].pc \in {"listened", "closed"}
    /\ req' = [req EXCEPT ![r] = IdleReq]
    /\ UNCHANGED <<now, ticks, arrivals, store, running, passed, denied, blocked,
                   lastActivity, fin, fout,
                   login, claimsTable, processing>>

AuditStep ==
    \E r \in Slots :
        \/ RateLimiterConsume(r)
        \/ RateLimiterContinue(r)
        \/ AuditLoggerEnter(r)
        \/ Route(r)
        \/ AuthenticateToken(r)
        \/ Handler(r)
        \/ HandlerReturn(r)
        \/ ResponseFinish(r)
        \/ ResponseClose(r)
        \/ Release(r)

AuditInsertSettles == \E r \in Slots, dbOk \in BOOLEAN : AuditInsertReply(r, dbOk)
PhiInsertSettles == \E r \in Slots, dbOk \in BOOLEAN : PhiInsertReply(r, dbOk)

NextAudit ==
    ArriveAudit \/ AuditStep \/ DbReply \/ AuditInsertSettles \/ PhiInsertSettles

SpecAudit == Init /\ [][NextAudit]_vars

\* The event loop runs every callback that is ready, and the database answers
\* the queries of authenticateToken and the INSERT INTO phi_access_log; nothing
\* makes the INSERT INTO audit_log settle.
SpecAuditFair ==
    /\ Init /\ [][NextAudit]_vars
    /\ WF_vars(AuditStep) /\ WF_vars(DbReply) /\ WF_vars(PhiInsertSettles)

----------------------------------------------------------------------------
\* middleware/errorHandler.ts: what errorHandler captures of the request, for
\* the response in development and for the system_errors row.

\* An object is a function from its field names to its values; a value is a
\* string, "" standing for the falsy ones. A body may be undefined.
FieldValues == {"", "secret", "[REDACTED]"}
BodyFields == {"password", "ssn", "token", "name"}
HeaderFields == {"authorization", "accept"}
QueryFields == {"token"}
ObjectsOver(fields) == UNION {[S -> FieldValues] : S \in SUBSET fields}
undefinedBody == [defined |-> FALSE, obj |-> <<>>]
RequestBodies ==
    {undefinedBody} \cup {[defined |-> TRUE, obj |-> o] : o \in ObjectsOver(BodyFields)}

sensitiveFields == {"password", "ssn", "social_security_number", "token", "apiKey"}
sensitiveHeaders == {"authorization", "cookie", "x-api-key"}

\* if (sanitized[field]): the field is there and its value is truthy
Truthy(v) == v # ""

\* Faulty variant: the sensitive fields are deleted.
sanitizeRequestData_Omit(data) ==
    IF ~data.defined THEN data
    ELSE [defined |-> TRUE,
          obj |-> [f \in {g \in DOMAIN data.obj :
                              ~(g \in sensitiveFields /\ Truthy(data.obj[g]))}
                     |-> data.obj[f]]]

sanitizeRequestData(data) ==
    IF ~data.defined THEN data
    ELSE [defined |-> TRUE,
          obj |-> [f \in DOMAIN data.obj |->
                     IF f \in sensitiveFields /\ Truthy(data.obj[f])
                     THEN "[REDACTED]" ELSE data.obj[f]]]

sanitizeHeaders(headers) ==
    [h \in DOMAIN headers |->
       IF h \in sensitiveHeaders /\ Truthy(headers[h])
       THEN "[REDACTED]" ELSE headers[h]]

\* errorDetails, as far as it holds request data
errorDetails(request) ==
    [body |-> request.body, params |-> request.params, query |-> request.query]

\* The request_data and headers written to system_errors
requestData(request) ==
    [body    |-> sanitizeRequestData(request.body),
     params  |-> request.params,
     query   |-> request.query,
     headers |-> sanitizeHeaders(request.headers)]

NoCapture == [pc |-> "start"]

InitSanitize ==
    /\ now = 0
    /\ ticks = 0
    /\ arrivals = 0
    /\ store = [c \in Cats |-> [k \in ClientIds |-> Absent]]
    /\ req = [r \in Slots |-> IdleReq]
    /\ running = 0
    /\ passed = [c \in Cats |-> [k \in ClientIds |-> 0]]
    /\ denied = [c \in Cats |-> [k \in ClientIds |-> 0]]
    /\ blocked = [c \in Cats |-> [k \in ClientIds |-> NoBlock]]
    /\ lastActivity = [u \in Users |-> -1]
    /\ login = NoLogin
    /\ claimsTable = NoClaims
    /\ processing = NoCalls
    /\ fin \in [body : RequestBodies, params : {[id |-> "42"]},
                query : ObjectsOver(QueryFields),
                headers : ObjectsOver(HeaderFields), env : Envs]
    /\ fout = NoCapture

\* errorHandler with a request: errorDetails, the row's request_data, and the
\* details attached to the response in development. again: the sanitizers
\* applied to what they returned.
CaptureRequest ==
    /\ fout = NoCapture
    /\ fout' = [pc           |-> "captured",
                request_data |-> requestData(fin),
                hasDetails   |-> fin.env = "development",
                details      |-> errorDetails(fin),
                again        |-> [body    |-> sanitizeRequestData(requestData(fin).body),
                                  headers |-> sanitizeHeaders(requestData(fin).headers)]]
    /\ UNCHANGED <<now, ticks, arrivals, store, req, running, passed, denied,
                   blocked, lastActivity, fin,
                   login, claimsTable, processing>>

SpecSanitize == InitSanitize /\ [][CaptureRequest]_vars

----------------------------------------------------------------------------
\* middleware/rateLimiter.ts: the limiter of failed logins, next to the
\* per-route limiter.

\* checkLoginRateLimit(identifier): consume on loginRateLimiter; a rejection
\* is thrown as Error('Too many failed login attempts. ...'). The calls are
\* counted from the opening of the identifier's window.
checkLoginRateLimit(l, identifier, t) ==
    LET rec  == l.store[identifier]
        c    == ConsumeWith(loginRateLimiter, rec, t)
        open == rec.value = 0 \/ rec.expiresAt - t <= 0
    IN  [store |-> [l.store EXCEPT ![identifier] = c.rec],
         calls |-> [l.calls EXCEPT ![identifier] = IF open THEN 1 ELSE @ + 1],
         last  |-> [l.last EXCEPT ![identifier] =
                      IF c.ok THEN "ok" ELSE "Too many failed login attempts"]]

\* resetLoginRateLimit(identifier): loginRateLimiter.delete(identifier)
\* Faulty variant: the record is kept.
resetLoginRateLimit_Keep(l, identifier) ==
    [store |-> l.store,
     calls |-> [l.calls EXCEPT ![identifier] = 0],
     last  |-> [l.last EXCEPT ![identifier] = "reset"]]

resetLoginRateLimit(l, identifier) ==
    [store |-> [l.store EXCEPT ![identifier] = Absent],
     calls |-> [l.calls EXCEPT ![identifier] = 0],
     last  |-> [l.last EXCEPT ![identifier] = "reset"]]

\* A call of checkLoginRateLimit; an identifier that is MaxRequests over its
\* points is not checked again until its record has expired or is reset.
CheckLoginRateLimit(identifier) ==
    /\ running = 0
    /\ LET rec == login.store[identifier]
       IN  rec.value < loginRateLimiter.points + MaxRequests \/ now >= rec.expiresAt
    /\ login' = checkLoginRateLimit(login, identifier, now)
    /\ UNCHANGED <<now, ticks, arrivals, store, req, running, passed, denied,
                   blocked, lastActivity, fin, fout, claimsTable, processing>>

\* A call of resetLoginRateLimit after a check
ResetLoginRateLimit(identifier) ==
    /\ running = 0
    /\ login.calls[identifier] > 0
    /\ login' = resetLoginRateLimit(login, identifier)
    /\ UNCHANGED <<now, ticks, arrivals, store, req, running, passed, denied,
                   blocked, lastActivity, fin, fout, claimsTable, processing>>

\* MemoryStorage's timer of a record of loginRateLimiter
LoginTimerFire(identifier) ==
    /\ running = 0
    /\ login.store[identifier].value > 0
    /\ now >= login.store[identifier].expiresAt
    /\ login' = [login EXCEPT !.store[identifier] = Absent]
    /\ UNCHANGED <<now, ticks, arrivals, store, req, running, passed, denied,
                   blocked, lastActivity, fin, fout, claimsTable, processing>>

\* Requests to an auth-category route pass the per-route rateLimiter meanwhile.
ArriveRouted ==
    /\ arrivals < MaxRequests
    /\ arrivals' = arrivals + 1
    /\ Arrive(1, pPlanAuthMembers, "10.0.0.1", NoToken, "authed")

LoginCalls ==
    \E identifier \in LoginIds :
        \/ CheckLoginRateLimit(identifier)
        \/ ResetLoginRateLimit(identifier)
        \/ LoginTimerFire(identifier)

\* The clock in steps of a window of loginRateLimiter
LoginClock == Tick(loginRateLimiter.duration * 1000)

NextLogin == LoginCalls \/ LoginClock \/ ArriveRouted \/ RateStep \/ Timers

SpecLogin == Init /\ [][NextLogin]_vars

----------------------------------------------------------------------------
\* middleware/auth.ts: optionalAuth, on a route that stacks it before its
\* handler.

\* optionalAuth up to its first await: next() without a token, else
\* authenticateToken(req, res, next), whose own catch answers every failure,
\* so that the catch of optionalAuth is never entered.
optionalAuth(q) ==
    IF q.token = NoToken
    THEN [q EXCEPT !.pc = "handler", !.log = Append(@, EvNext("optionalAuth"))]
    ELSE AuthenticateStart(q)

OptionalAuth(r) ==
    /\ running = r
    /\ req[r].pc = "optionalAuth"
    /\ LET q == optionalAuth(req[r]) IN
       /\ req' = [req EXCEPT ![r] = q]
       /\ running' = IF q.pc = "db_select" THEN 0 ELSE r
    /\ UNCHANGED <<now, ticks, arrivals, store, passed, denied, blocked,
                   lastActivity, fin, fout, login, claimsTable, processing>>

ArriveOptional ==
    /\ arrivals < MaxRequests
    /\ arrivals' = arrivals + 1
    /\ \E r \in Slots, token \in Tokens :
           Arrive(r, pPlans, "10.0.0.1", token, "optional")

OptionalStep ==
    \E r \in Slots :
        \/ RateLimiterConsume(r)
        \/ RateLimiterContinue(r)
        \/ AuditLoggerEnter(r)
        \/ Route(r)
        \/ OptionalAuth(r)
        \/ Handler(r)
        \/ Finish(r)

NextOptional == ArriveOptional \/ OptionalStep \/ DbReply

SpecOptional == Init /\ [][NextOptional]_vars

----------------------------------------------------------------------------
\* controllers/claimsController.ts: processClaim, called for one claim by
\* requests that interleave at its two awaits.

validStatuses == {"PROCESSED", "PAID", "DENIED", "PENDED"}
processableStatuses == {"RECEIVED", "PROCESSING", "PENDED"}
\* req.body of a call: status, allowedAmount, paidAmount (0: not given)
ProcessBodies ==
    [status : validStatuses \cup {"BOGUS"}, allowedAmount : {0, 100},
     paidAmount : {0, 80}]

\* COALESCE($n, column)
Coalesce(value, column) == IF value # 0 THEN value ELSE column

\* createClaim: the row is inserted with claimData.claimStatus || 'RECEIVED'
CreateClaim(id, claimStatus) ==
    /\ claimsTable[id].claim_status = "NONE"
    /\ claimsTable' = [claimsTable EXCEPT ![id].claim_status = claimStatus]
    /\ UNCHANGED <<now, ticks, arrivals, store, req, running, passed, denied,
                   blocked, lastActivity, fin, fout, login, processing>>

\* processClaim up to its first await: the status is validated (400), else
\* the SELECT is sent.
ProcessClaimStart(c, id, body) ==
    /\ arrivals < MaxRequests
    /\ arrivals' = arrivals + 1
    /\ processing[c].pc = "idle"
    /\ processing' = [processing EXCEPT ![c] =
           IF body.status \notin validStatuses
           THEN [NoCall EXCEPT !.pc = "done", !.id = id, !.status = body.status,
                               !.result = 400]
           ELSE [NoCall EXCEPT !.pc = "select", !.id = id, !.status = body.status,
                               !.allowedAmount = body.allowedAmount,
                               !.paidAmount = body.paidAmount]]
    /\ UNCHANGED <<now, ticks, store, req, running, passed, denied, blocked,
                   lastActivity, fin, fout, login, claimsTable>>

\* The SELECT ... AND claim_status IN ('RECEIVED', 'PROCESSING', 'PENDED') is
\* answered: no row gives 404, a row lets the UPDATE be sent; a rejected
\* query goes to the error handler.
ProcessClaimSelected(c, dbOk) ==
    /\ processing[c].pc = "select"
    /\ LET row == claimsTable[processing[c].id]
       IN  processing' = [processing EXCEPT ![c] =
               IF ~dbOk THEN [@ EXCEPT !.pc = "done", !.result = 500]
               ELSE IF row.claim_status \notin processableStatuses
               THEN [@ EXCEPT !.pc = "done", !.result = 404]
               ELSE [@ EXCEPT !.pc = "update", !.found = row.claim_status]]
    /\ UNCHANGED <<now, ticks, arrivals, store, req, running, passed, denied,
                   blocked, lastActivity, fin, fout, login, claimsTable>>

\* The UPDATE claims SET ... WHERE id = $5 is executed and answered, and the
\* call responds 200. The UPDATE names the row by its id alone.
ProcessClaimUpdated(c, dbOk) ==
    /\ processing[c].pc = "update"
    /\ LET call == processing[c]
       IN  IF dbOk
           THEN /\ claimsTable' = [claimsTable EXCEPT ![call.id] =
                      [claim_status   |-> call.status,
                       allowed_amount |-> Coalesce(call.allowedAmount, @.allowed_amount),
                       paid_amount    |-> Coalesce(call.paidAmount, @.paid_amount),
                       writes         |-> @.writes + 1]]
                /\ processing' = [processing EXCEPT ![c].pc = "done",
                                                    ![c].result = 200]
           ELSE /\ UNCHANGED claimsTable
                /\ processing' = [processing EXCEPT ![c].pc = "done",
                                                    ![c].result = 500]
    /\ UNCHANGED <<now, ticks, arrivals, store, req, running, passed, denied,
                   blocked, lastActivity, fin, fout, login>>

\* The response of the call is out.
ProcessClaimReturn(c) ==
    /\ processing[c].pc = "done"
    /\ processing' = [processing EXCEPT ![c] = NoCall]
    /\ UNCHANGED <<now, ticks, arrivals, store, req, running, passed, denied,
                   blocked, lastActivity, fin, fout, login, claimsTable>>

NextClaims ==
    \/ \E id \in ClaimIds, st \in {"RECEIVED", "PENDED"} : CreateClaim(id, st)
    \/ \E c \in Callers, id \in ClaimIds, body \in ProcessBodies :
           ProcessClaimStart(c, id, body)
    \/ \E c \in Callers, dbOk \in BOOLEAN : ProcessClaimSelected(c, dbOk)
    \/ \E c \in Callers, dbOk \in BOOLEAN : ProcessClaimUpdated(c, dbOk)
    \/ \E c \in Callers : ProcessClaimReturn(c)

SpecClaims == Init /\ [][NextClaims]_vars

----------------------------------------------------------------------------
\* Properties.

Min(a, b) == IF a <= b THEN a ELSE b

\* The request has been counted by its limiter.
Counted(q) == q.pc \notin {"idle", "rateLimiter"}

\* The request's consume has settled and rateLimiter has not yet resumed.
Settling(cat, id) ==
    \E r \in Slots : /\ req[r].pc = "rl_settled"
                     /\ req[r].limiter = cat
                     /\ req[r].clientId = id

\* Positions in the request's log where the middleware did the thing.
Did(q, mw, ev) == {i \in 1..Len(q.log) : q.log[i].mw = mw /\ q.log[i].ev = ev}

\* rateLimiter answered the request 429.
Rejected(q) == Did(q, "rateLimiter", "send") # {}

AuthKey == <<"ip", "10.0.0.1">>

\* C1: no lost updates. For every key and category of capacity C, of the N
\* requests counted within the window at most C are handed to next() and the
\* other N - C are answered 429, however the requests interleave; no two
\* requests in flight hold the same point of a key.
C1_NoLostUpdates ==
    /\ \A cat \in Cats, id \in ClientIds :
           LET C == rateLimiters[cat].points
               N == store[cat][id].value
           IN  /\ passed[cat][id] <= C
               /\ ~Settling(cat, id) =>
                      /\ passed[cat][id] = Min(N, C)
                      /\ denied[cat][id] = N - Min(N, C)
    /\ \A r1, r2 \in Slots :
           (/\ r1 # r2
            /\ Counted(req[r1]) /\ Counted(req[r2])
            /\ req[r1].limiter = req[r2].limiter
            /\ req[r1].clientId = req[r2].clientId)
           => req[r1].res.consumedPoints # req[r2].res.consumedPoints

\* A request that took the key's last but one point still awaits the
\* database, and meanwhile the last point went and two requests got 429.
C1_Witness ==
    /\ passed["auth"][AuthKey] = 5
    /\ denied["auth"][AuthKey] = 2
    /\ \E r \in Slots : /\ req[r].pc = "db_update"
                        /\ req[r].res.remainingPoints = 1

\* C2: block persistence. Once a key is blocked until T, every request counted
\* before T is rejected, also after the counting window is over (admin: 120 s
\* from the first 429); every 429 of the block announces the same T, which is
\* when the key's record expires; Retry-After never goes up from one 429 to the
\* next; and a request counted after T is allowed.
C2_Step ==
    \A r \in Slots :
        LET b == blocked[req'[r].limiter][req'[r].clientId] IN
        /\ (req[r].pc = "rateLimiter" /\ req'[r].pc = "rl_settled" /\ b.at # -1) =>
               /\ now < b.until => ~req'[r].ok
               /\ now > b.until => req'[r].ok
        /\ (req[r].pc = "rl_settled" /\ req'[r].pc = "done") =>
               /\ req'[r].headers.reset = store[req'[r].limiter][req'[r].clientId].expiresAt
               /\ b.at # -1 =>
                      /\ req'[r].headers.reset = b.until
                      /\ req'[r].headers.retryAfter <= b.retry
               /\ req'[r].limiter = "admin" =>
                      req'[r].headers.reset =
                          blocked'["admin"][req'[r].clientId].at + 120000

C2_BlockPersistence == [][C2_Step]_vars

\* A request is answered 429 when the admin window of 60 s is over and the
\* block is not.
C2_Witness ==
    \E r \in Slots :
        /\ req[r].pc = "done"
        /\ Rejected(req[r])
        /\ req[r].limiter = "admin"
        /\ now >= blocked["admin"][req[r].clientId].at + 60000
        /\ now < blocked["admin"][req[r].clientId].until

\* C3: the remaining-quota sequence. The k-th request rateLimiter lets through
\* in a window reports X-RateLimit-Remaining = C - k (auth: 4, 3, 2, 1, 0), the
\* request counted as number C + 1 is rejected, and the first request after
\* the block has run out is let through and reports C - 1.
C3_RemainingSequence ==
    \A r \in Slots :
        LET q == req[r]
            C == rateLimiters[q.limiter].points
            k == passed[q.limiter][q.clientId]
        IN  /\ (Counted(q) /\ q.limiter = "auth") =>
                   /\ q.ok <=> q.res.consumedPoints <= 5
                   /\ q.res.consumedPoints = 6 => ~q.ok
            /\ Did(q, "rateLimiter", "next") # {} =>
                   /\ k \in 1..C
                   /\ q.headers.remaining = C - k
                   /\ q.limiter = "auth" => q.headers.remaining = 5 - k
            /\ denied[q.limiter][q.clientId] > 0 => k = C
            /\ (Counted(q) /\ q.unblocked) =>
                   /\ q.ok
                   /\ q.res.remainingPoints = C - 1
                   /\ q.pc # "rl_settled" => q.headers.remaining = C - 1

\* The first request after the auth block of a quarter of an hour has passed
\* the limiter.
C3_Witness ==
    \E r \in Slots :
        /\ req[r].limiter = "auth"
        /\ req[r].unblocked
        /\ Did(req[r], "rateLimiter", "next") # {}
        /\ req[r].headers.remaining = 4
        /\ now >= 900000

\* C4: every 429 of rateLimiter has X-RateLimit-Remaining 0 and a Retry-After
\* in whole seconds greater than 0, whatever is left of the block.
C4_RetryAfterPositive ==
    \A r \in Slots :
        Rejected(req[r]) =>
            /\ req[r].log[Len(req[r].log)].status = 429
            /\ req[r].headers.remaining = 0
            /\ req[r].headers.retryAfter > 0

\* C5: a request with a valid credential is counted under the key of its
\* identity, 'user:<id>'; 'ip:<addr>' is the key of unauthenticated requests
\* only.
C5_KeyedByIdentity ==
    \A r \in Slots :
        Counted(req[r]) =>
            IF req[r].token \in Users /\ appUsers[req[r].token].is_active
            THEN req[r].clientId = <<"user", req[r].token>>
            ELSE req[r].clientId[1] = "ip"

\* pat occurs in s at some offset, character by character.
Occurs(s, pat) ==
    \E i \in 0..Len(s) :
        /\ i + Len(pat) <= Len(s)
        /\ \A j \in 1..Len(pat) : s[i + j] = pat[j]

\* C6: getRateLimiter is total: every path gets exactly one of the four
\* categories, '/auth/' before '/admin/' before '/search', '/members',
\* '/providers', and general for a path with none of them.
C6_CategoryTotal ==
    fout # "" =>
        LET isAuth   == Occurs(fin, <<"/","a","u","t","h","/">>)
            isAdmin  == Occurs(fin, <<"/","a","d","m","i","n","/">>)
            isSearch == \/ Occurs(fin, <<"/","s","e","a","r","c","h">>)
                        \/ Occurs(fin, <<"/","m","e","m","b","e","r","s">>)
                        \/ Occurs(fin, <<"/","p","r","o","v","i","d","e","r","s">>)
        IN  /\ fout \in {"auth", "admin", "search", "general"}
            /\ isAuth => fout = "auth"
            /\ (~isAuth /\ isAdmin) => fout = "admin"
            /\ (~isAuth /\ ~isAdmin /\ isSearch) => fout = "search"
            /\ (~isAuth /\ ~isAdmin /\ ~isSearch) => fout = "general"

\* A path with '/admin/', '/auth/' and '/members' in it has got the auth
\* category.
C6_Witness ==
    /\ fin = <<"/","a","d","m","i","n","/","a","u","t","h","/","m","e","m","b","e","r","s">>
    /\ fout = "auth"

Gates == {"rateLimiter", "authenticateToken", "requirePermission", "requireRole"}

\* C7: short-circuit. Each of rateLimiter, authenticateToken, requirePermission
\* and requireRole calls next() once and sends nothing, or sends one response,
\* a 429, 401 or 403, and does not call next(); nothing runs for a request once
\* a response is sent, so the handler never runs after a failure and no request
\* has both a failure response and a handler run.
C7_ShortCircuit ==
    \A r \in Slots :
        LET q == req[r]
            L == q.log
        IN  /\ \A mw \in Gates :
                   /\ Cardinality(Did(q, mw, "next")) + Cardinality(Did(q, mw, "send")) <= 1
                   /\ \A i \in Did(q, mw, "send") : L[i].status \in {429, 401, 403}
            /\ \A i \in 1..Len(L) : L[i].ev = "send" => i = Len(L)
            /\ Did(q, "handler", "send") # {} =>
                   \A mw \in Gates : Did(q, mw, "send") = {}
            /\ q.pc \in {"handler", "guard", "db_select", "db_update", "authenticate"} =>
                   \A i \in 1..Len(L) : L[i].ev # "send"
            /\ q.pc = "done" => (Len(L) > 0 /\ L[Len(L)].ev = "send")
            /\ Did(q, "rateLimiter", "next") # {} <=>
                   q.pc \notin {"idle", "rateLimiter", "rl_settled", "done"}
                   \/ (q.pc = "done" /\ ~Rejected(q))

\* requirePermission has answered 403 to a request that rateLimiter and
\* authenticateToken had handed on, while another request is in flight.
C7_Witness ==
    \E r \in Slots :
        /\ req[r].pc = "done"
        /\ Did(req[r], "requirePermission", "send") # {}
        /\ req[r].log[Len(req[r].log)].status = 403
        /\ Did(req[r], "authenticateToken", "next") # {}
        /\ Did(req[r], "rateLimiter", "next") # {}
        /\ \E o \in Slots : o # r /\ req[o].pc \in {"db_select", "db_update"}

\* The response authenticateToken sent, if any.
AuthSent(q) == {q.log[i].info : i \in Did(q, "authenticateToken", "send")}

\* authenticateToken has run to its end for the request.
AuthDone(q) ==
    Did(q, "authenticateToken", "next") # {} \/ Did(q, "authenticateToken", "send") # {}

ActiveIdentity(token) == token \in Users /\ appUsers[token].is_active

\* C8 as stated: req.user and next() only for a present, verified token of an
\* active identity; missing token -> 401 'Access token required', failed
\* verification -> 'Invalid token', unknown or deactivated identity -> 401
\* 'Invalid or expired token', and nothing else is reported as one of these.
C8_ThreeCauses ==
    \A r \in Slots :
        LET q == req[r] IN
        /\ (q.user # NoUser \/ Did(q, "authenticateToken", "next") # {}) =>
               (ActiveIdentity(q.token) /\ q.user = q.token)
        /\ "Access token required" \in AuthSent(q) => q.token = NoToken
        /\ "Invalid token" \in AuthSent(q) => q.token = BadToken
        /\ "Invalid or expired token" \in AuthSent(q) =>
               (q.token \notin {NoToken, BadToken} /\ ~ActiveIdentity(q.token))

\* C8 with the causes the code has: 'Invalid token' (403) answers a failed
\* verification and also every exception of the identity store, from the
\* SELECT or from the last-activity UPDATE; the other outcomes are as stated,
\* and each cause gets its outcome.
C8_CausesWithStore ==
    \A r \in Slots :
        LET q == req[r]
            L == q.log
        IN
        /\ (q.user # NoUser \/ Did(q, "authenticateToken", "next") # {}) =>
               (ActiveIdentity(q.token) /\ q.user = q.token)
        /\ Did(q, "authenticateToken", "next") # {} => q.dbError = "none"
        /\ "Access token required" \in AuthSent(q) =>
               (q.token = NoToken /\ L[Len(L)].status = 401)
        /\ "Invalid token" \in AuthSent(q) =>
               /\ q.token = BadToken \/ q.dbError \in {"select", "update"}
               /\ L[Len(L)].status = 403
        /\ "Invalid or expired token" \in AuthSent(q) =>
               /\ q.token \notin {NoToken, BadToken}
               /\ ~ActiveIdentity(q.token)
               /\ q.dbError = "none"
               /\ L[Len(L)].status = 401
        /\ AuthDone(q) =>
               /\ q.token = NoToken => AuthSent(q) = {"Access token required"}
               /\ q.token = BadToken => AuthSent(q) = {"Invalid token"}
               /\ q.dbError # "none" => AuthSent(q) = {"Invalid token"}
               /\ (q.token \notin {NoToken, BadToken} /\ q.dbError = "none") =>
                      IF ActiveIdentity(q.token)
                      THEN AuthSent(q) = {}
                      ELSE AuthSent(q) = {"Invalid or expired token"}

\* The SELECT threw for the valid token of an active identity and the request
\* has been answered 'Invalid token', while the other request in flight has its
\* identity loaded.
C8_Witness ==
    \E r, o \in Slots :
        /\ req[r].token = "u1"
        /\ req[r].dbError = "select"
        /\ AuthSent(req[r]) = {"Invalid token"}
        /\ req[o].pc = "db_update"
        /\ req[o].user = "u2"

\* C9: recording last-activity is best-effort: when the UPDATE fails for a
\* verified token of an active identity, authenticateToken still calls next()
\* with req.user set and sends no error response.
C9_BestEffort ==
    \A r \in Slots :
        req[r].dbError = "update" =>
            /\ req[r].user = req[r].token
            /\ Did(req[r], "authenticateToken", "next") # {}
            /\ Did(req[r], "authenticateToken", "send") = {}

AuditTags == {"PERMISSION_DENIED", "ROLE_ACCESS_DENIED"}

\* The audit tag of a guard.
TagOf(mw) == IF mw = "requirePermission" THEN "PERMISSION_DENIED"
             ELSE "ROLE_ACCESS_DENIED"

\* C10: a 403 of requirePermission / requireRole comes right after the one
\* audit entry PERMISSION_DENIED / ROLE_ACCESS_DENIED of the request, which
\* carries the principal's id; a request the guard passes or answers 401 has no
\* such entry.
C10_AuditBeforeDeny ==
    \A r \in Slots :
        LET q == req[r]
            L == q.log
        IN
        /\ \A mw \in {"requirePermission", "requireRole"} :
               /\ \A i \in Did(q, mw, "send") :
                      IF L[i].status = 403
                      THEN /\ i > 1
                           /\ L[i - 1] = auditLog(mw, TagOf(mw), q.user)
                           /\ q.user # NoUser
                           /\ q.user = q.token
                           /\ Cardinality({j \in 1..Len(L) : L[j].ev \in AuditTags}) = 1
                      ELSE /\ L[i].status = 401
                           /\ q.user = NoUser
                           /\ \A j \in 1..Len(L) : L[j].ev \notin AuditTags
               /\ Did(q, mw, "next") # {} =>
                      \A j \in 1..Len(L) : L[j].ev \notin AuditTags
        /\ \A j \in 1..Len(L) :
               L[j].ev \in AuditTags =>
                   /\ j < Len(L)
                   /\ L[j + 1].ev = "send"
                   /\ L[j + 1].status = 403
                   /\ L[j + 1].mw = L[j].mw
                   /\ L[j].ev = TagOf(L[j].mw)

\* requireRole has answered 403 to u2, who is no ADMIN, right after the audit
\* entry.
C10_Witness ==
    \E r \in Slots :
        /\ req[r].pc = "done"
        /\ req[r].user = "u2"
        /\ Len(req[r].log) > 1
        /\ req[r].log[Len(req[r].log)] =
               EvSend("requireRole", 403, "Insufficient role permissions")
        /\ req[r].log[Len(req[r].log) - 1] =
               auditLog("requireRole", "ROLE_ACCESS_DENIED", "u2")

\* pat occurs in s at offset i.
OccursAt(s, pat, i) ==
    /\ i + Len(pat) <= Len(s)
    /\ \A j \in 1..Len(pat) : s[i + j] = pat[j]

\* The offset of the first occurrence of pat in s; Len(s) + 1 if there is none.
FirstAt(s, pat) ==
    IF Occurs(s, pat)
    THEN CHOOSE i \in 0..Len(s) :
             OccursAt(s, pat, i) /\ \A k \in 0..(i - 1) : ~OccursAt(s, pat, k)
    ELSE Len(s) + 1

Classified == fout # NoClass

\* C11: shouldAuditRequest is true exactly when the request is authenticated, or
\* its path is an authentication path ('/auth/') or an admin path ('/admin/'),
\* or its method is POST, PUT, PATCH or DELETE, or its resourceType is
\* PHI-bearing (MEMBER or CLAIM); it is false for every other request.
C11_AuditExactly ==
    Classified =>
        (fout.shouldAudit <=>
            \/ fin.user # NoUser
            \/ Occurs(fin.path, <<"/","a","u","t","h","/">>)
            \/ Occurs(fin.path, <<"/","a","d","m","i","n","/">>)
            \/ fin.method \in {"POST", "PUT", "PATCH", "DELETE"}
            \/ fout.resourceType \in {"MEMBER", "CLAIM"})

\* The request is a GET to a path that is neither an admin nor an
\* authentication path.
PlainGet ==
    /\ fin.method = "GET"
    /\ ~Occurs(fin.path, <<"/","a","u","t","h","/">>)
    /\ ~Occurs(fin.path, <<"/","a","d","m","i","n","/">>)

\* C12 as stated: an authenticated GET to a non-admin, non-auth path of
\* resourceType UNKNOWN is not audited, and the same request of resourceType
\* MEMBER is.
C12_GatingAuthenticated ==
    (Classified /\ fin.user # NoUser /\ PlainGet) =>
        /\ fout.resourceType = "UNKNOWN" => ~fout.shouldAudit
        /\ fout.resourceType = "MEMBER" => fout.shouldAudit

\* C12 as the code has it: an authenticated request is audited whatever its
\* resourceType; it is the unauthenticated GET to a non-admin, non-auth path
\* that is not audited when its resourceType is UNKNOWN and is audited when
\* its path has '/members/' in it (resourceType MEMBER).
C12_GatingByIdentity ==
    Classified =>
        /\ fin.user # NoUser => fout.shouldAudit
        /\ (fin.user = NoUser /\ PlainGet /\ fout.resourceType = "UNKNOWN") =>
               ~fout.shouldAudit
        /\ (fin.user = NoUser /\ PlainGet
              /\ Occurs(fin.path, <<"/","m","e","m","b","e","r","s","/">>)) =>
               (fout.shouldAudit /\ fout.resourceType = "MEMBER")

\* An authenticated GET to a path of resourceType UNKNOWN has been classified
\* as to be audited.
C12_Witness ==
    /\ Classified
    /\ fin.user = "u1"
    /\ PlainGet
    /\ fin.path = <<"/", "x">>
    /\ fout.resourceType = "UNKNOWN"
    /\ fout.shouldAudit

\* The resource kinds with the path fragments that name them.
KindFrags ==
    [MEMBER   |-> {<<"/","m","e","m","b","e","r","s">>},
     CLAIM    |-> {<<"/","c","l","a","i","m","s">>},
     PROVIDER |-> {<<"/","p","r","o","v","i","d","e","r","s">>},
     USER     |-> {<<"/","u","s","e","r","s">>, <<"/","a","u","t","h">>},
     SYSTEM   |-> {<<"/","a","d","m","i","n">>}]

Kinds == {"MEMBER", "CLAIM", "PROVIDER", "USER", "SYSTEM"}

\* Where in the path the kind is first named; Len + 1 if nowhere.
KindAt(path, kind) ==
    LET at == {FirstAt(path, f) : f \in KindFrags[kind]}
    IN  CHOOSE m \in at : \A o \in at : m <= o

\* C17: resourceType is the kind of the first of the member, claim, provider,
\* user-or-auth and admin segments to appear in the path, and UNKNOWN for a
\* path with none of them.
C17_FirstSegment ==
    Classified =>
        IF \A kind \in Kinds : KindAt(fin.path, kind) > Len(fin.path)
        THEN fout.resourceType = "UNKNOWN"
        ELSE /\ fout.resourceType \in Kinds
             /\ \A kind \in Kinds :
                    KindAt(fin.path, fout.resourceType) <= KindAt(fin.path, kind)

\* The elements of a sequence.
Elems(seq) == {seq[i] : i \in 1..Len(seq)}

\* C18: containsPhi is true exactly for resourceType MEMBER or CLAIM, and
\* phiElements depends on the resourceType and the SSN flag of the body only:
\* MEMBER gives DEMOGRAPHIC, CONTACT, IDENTIFICATION, and SSN iff the body has a
\* social-security field; CLAIM gives MEDICAL, FINANCIAL; any other
\* resourceType gives none.
C18_PhiByResourceType ==
    Classified =>
        /\ fout.containsPhi <=> fout.resourceType \in {"MEMBER", "CLAIM"}
        /\ fout.resourceType = "MEMBER" =>
               Elems(fout.phiElements) =
                   {"DEMOGRAPHIC", "CONTACT", "IDENTIFICATION"} \cup
                   (IF fin.body.ssn \/ fin.body.social_security_number
                    THEN {"SSN"} ELSE {})
        /\ fout.resourceType = "CLAIM" =>
               Elems(fout.phiElements) = {"MEDICAL", "FINANCIAL"}
        /\ fout.resourceType \notin {"MEMBER", "CLAIM"} =>
               fout.phiElements = <<>>

\* ---- the error handler ----

\* The rules of the claimed order: does the k-th rule match the error, and the
\* status it gives.
RuleMatches(k, error) ==
    CASE k = 1 -> error.name = "ValidationError"
      [] k = 2 -> error.name = "UnauthorizedError"
      [] k = 3 -> error.name = "CastError"
      [] k = 4 -> error.code = <<"2", "3", "5", "0", "5">>
      [] k = 5 -> error.code = <<"2", "3", "5", "0", "3">>
      [] k = 6 -> error.code = <<"2", "3", "5", "0", "2">>
      [] k = 7 -> error.statusCode # 0
      [] OTHER -> TRUE
RuleStatus(k, error) ==
    CASE k = 1 -> 400
      [] k = 2 -> 401
      [] k = 3 -> 400
      [] k = 4 -> 409
      [] k = 5 -> 400
      [] k = 6 -> 400
      [] k = 7 -> error.statusCode
      [] OTHER -> 500
RuleMessage(k) ==
    CASE k = 4 -> "Resource already exists"
      [] k = 5 -> "Invalid reference to related resource"
      [] k = 6 -> "Required field is missing"
      [] OTHER -> ""
EarliestRule(error) ==
    CHOOSE k \in 1..8 : /\ RuleMatches(k, error)
                        /\ \A j \in 1..(k - 1) : ~RuleMatches(j, error)

\* C19: error classification is first-match-wins in the order ValidationError
\* 400, UnauthorizedError 401, CastError 400, code 23505 409 'already
\* exists', 23503 400 'invalid reference', 23502 400 'required field
\* missing', the error's explicit statusCode, 500: for every combination of
\* markers the response status is that of the earliest matching rule, and it
\* equals the status field of the response body.
C19_FirstMatchWins ==
    fout.pc = "sent" =>
        LET k == EarliestRule(fin.error)
        IN  /\ fout.response.status = RuleStatus(k, fin.error)
            /\ fout.response.bodyStatus = fout.response.status
            /\ k \in 4..6 => fout.response.message = RuleMessage(k)

\* An error with a name marker, a storage code and an explicit statusCode at
\* once, answered by the name's rule
C19_Witness ==
    /\ fout.pc = "sent"
    /\ fin.error.name = "UnauthorizedError"
    /\ fin.error.code = <<"2", "3", "5", "0", "5">>
    /\ fin.error.statusCode = 503
    /\ fout.response.status = 401

\* C20: for every handled error, the severity stored in its system_errors row
\* is the severity of the status that is returned to the caller: HIGH iff
\* that status is >= 500, MEDIUM iff it is 400-499, LOW otherwise.
C20_SeverityOfReturned ==
    (fout.pc = "sent" /\ fout.stored # NoRecord) =>
        LET s == fout.response.status
        IN  /\ fout.stored.severity_level = "HIGH" <=> s >= 500
            /\ fout.stored.severity_level = "MEDIUM" <=> (s >= 400 /\ s <= 499)
            /\ fout.stored.severity_level = "LOW" <=> s < 400

\* ---- the 'finish' listener of auditLogger ----

Has(seq, x) == \E i \in 1..Len(seq) : seq[i] = x
Times(seq, x) == Cardinality({i \in 1..Len(seq) : seq[i] = x})
Answered(q) == \E i \in 1..Len(q.log) : q.log[i].ev = "send"

C13_State ==
    \A r \in Slots :
        LET q == req[r]
        IN  /\ Has(q.post, "audit_attempt") =>
                   /\ Answered(q)
                   /\ q.post[1] = "finish"
                   /\ q.pc \in {"audit_insert", "phi_insert", "listened"}
            /\ Times(q.post, "audit_attempt") <= 1
            /\ Has(q.post, "audit_failed") =>
                   /\ Has(q.diag, "Failed to insert audit log:")
                   /\ ~Has(q.post, "audit_stored")
                   /\ q.pc \in {"phi_insert", "listened"}

C13_Step ==
    \A r \in Slots :
        (req[r].post # <<>> /\ req'[r].post # <<>>) =>
            /\ req'[r].log = req[r].log
            /\ req'[r].headers = req[r].headers

\* C13: audit recording is post-response and non-raising. For every request
\* the audit_log write is attempted only after the response has finished,
\* never before or while the response is produced; a failure of the write is
\* caught and logged locally, the listener goes on, the response already sent
\* never changes, and the write is not retried.
C13_PostResponseNonRaising == []C13_State /\ [][C13_Step]_vars

\* A request answered 200 whose audit_log INSERT failed and whose listener
\* went on to the end
C13_Witness ==
    \E r \in Slots :
        /\ req[r].pc = "listened"
        /\ Has(req[r].post, "audit_failed")
        /\ \E i \in 1..Len(req[r].log) : req[r].log[i] = EvSend("handler", 200, "ok")

\* C14: a client disconnect does not cancel the recording. For every request
\* that passed auditLogger and that should be audited, an audit_log write has
\* been attempted by the time nothing of the request is left to run, also
\* when the client disconnected before the response was flushed.
C14_RecordedDespiteDisconnect ==
    \A r \in Slots :
        LET q == req[r]
        IN  (/\ q.pc \in {"listened", "closed"}
             /\ ListenerRegistered(q)
             /\ shouldAuditRequest(q.user, q.method, q.url))
            => Has(q.post, "audit_attempt")

\* C15: for every finished request that is flagged PHI-bearing a
\* phi_access_log write is attempted, and for every request not flagged none
\* is, whether or not the request is authenticated.
C15_PhiForEveryFlagged ==
    \A r \in Slots :
        LET q == req[r]
        IN  (q.pc = "listened" /\ ListenerRegistered(q)) =>
                (containsPHI(q.url) <=> Has(q.post, "phi_attempt"))

\* C16: the audit write and the PHI-access write of one request are
\* independent. A failed audit_log INSERT does not keep the phi_access_log
\* INSERT from being attempted and stored, a failed phi_access_log INSERT
\* leaves the stored audit row alone, and an audit_log INSERT that never
\* settles does not keep the PHI write from happening.
C16_IndependentWrites ==
    /\ [](\A r \in Slots :
            LET q == req[r]
            IN  /\ (/\ Has(q.post, "audit_failed")
                    /\ containsPHI(q.url) /\ q.user # NoUser)
                   => Has(q.post, "phi_attempt")
                /\ (Has(q.post, "phi_failed") /\ Has(q.post, "audit_attempt"))
                   => (Has(q.post, "audit_stored") \/ Has(q.post, "audit_failed")))
    /\ \A r \in Slots :
           (/\ req[r].pc = "audit_insert"
            /\ containsPHI(req[r].url) /\ req[r].user # NoUser)
           ~> Has(req[r].post, "phi_attempt")

\* The message the claimed rules give an error in a deployment
ExpectedMessage(k, error, env) ==
    IF env = "production" /\ RuleStatus(k, error) = 500
    THEN "Internal server error occurred"
    ELSE CASE k = 1 -> IF error.message # "" THEN error.message ELSE "Validation failed"
           [] k = 2 -> "Invalid credentials"
           [] k = 3 -> "Invalid ID format"
           [] k \in 4..6 -> RuleMessage(k)
           [] OTHER -> error.message

\* C21: never-throw guarantee. For every error, if the write of the
\* system_errors row fails, errorHandler goes on and sends exactly one
\* response, with the status and the message it sends when the write
\* succeeds: those that the error and the deployment alone determine.
C21_NeverThrow ==
    /\ Has(fout.diag, "Database error logging failed:") =>
           /\ fout.pc \in {"logged", "sent"}
           /\ fout.stored = NoRecord
    /\ fout.pc = "sent" =>
           LET k == EarliestRule(fin.error)
           IN  /\ fout.sent = 1
               /\ fout.response.status = RuleStatus(k, fin.error)
               /\ fout.response.message = ExpectedMessage(k, fin.error, fin.env)

\* A response sent after the INSERT INTO system_errors failed
C21_Witness ==
    /\ fout.pc = "sent"
    /\ Has(fout.diag, "Database error logging failed:")
    /\ fout.stored = NoRecord
    /\ fout.response.status = 409

\* C22: error recording is fire-and-forget relative to the response. The
\* row is written only once the response has been sent, and for every error
\* the response is eventually sent even if the INSERT INTO system_errors
\* never settles.
C22_FireAndForget ==
    /\ [](fout.insert # NoRecord => fout.sent >= 1)
    /\ (fout.pc = "start") ~> (fout.pc = "sent")

\* C23: in every deployment other than development (NODE_ENV unset
\* included) every error response with a status of 500-599 carries the
\* generic message, not the error's own, and no stack trace or details.
C23_NoLeakOutsideDevelopment ==
    (/\ fout.pc = "sent"
     /\ fin.env # "development"
     /\ fout.response.status >= 500 /\ fout.response.status <= 599)
    => /\ fout.response.message = "Internal server error occurred"
       /\ ~fout.response.stack

\* ---- the request data errorHandler captures ----

Captured == fout.pc = "captured"
Sensitive == {"password", "ssn", "social_security_number", "token", "apiKey",
              "authorization", "cookie", "x-api-key"}
\* Every sensitive field of the object holds the marker.
Redacted(obj) == \A f \in DOMAIN obj : f \in Sensitive => obj[f] = "[REDACTED]"

\* C24: in development the details attached to an error response are
\* sanitized: for every request body they hold no value other than the
\* redaction marker under a sensitive field name.
C24_DetailsSanitized ==
    (Captured /\ fout.hasDetails /\ fout.details.body.defined) =>
        Redacted(fout.details.body.obj)

\* C25: in every persisted system_errors row no sensitive field holds its
\* original value, in body, params, query or headers: each such field of the
\* request is still there and holds '[REDACTED]', whatever its value was,
\* empty and falsy values included.
C25_RowRedacted ==
    Captured =>
        LET d == fout.request_data
        IN  /\ d.body.defined = fin.body.defined
            /\ d.body.defined =>
                   (DOMAIN d.body.obj = DOMAIN fin.body.obj /\ Redacted(d.body.obj))
            /\ DOMAIN d.query = DOMAIN fin.query /\ Redacted(d.query)
            /\ DOMAIN d.params = DOMAIN fin.params /\ Redacted(d.params)
            /\ DOMAIN d.headers = DOMAIN fin.headers /\ Redacted(d.headers)

\* C26: sanitization is idempotent and keeps the shape. For every body and
\* header map x, sanitize(sanitize(x)) = sanitize(x), sanitize(x) has the
\* field names of x, and every field that is not sensitive keeps its value.
C26_Idempotent ==
    Captured =>
        LET d == fout.request_data
        IN  /\ fout.again.body = d.body
            /\ fout.again.headers = d.headers
            /\ d.body.defined = fin.body.defined
            /\ d.body.defined =>
                   /\ DOMAIN d.body.obj = DOMAIN fin.body.obj
                   /\ \A f \in DOMAIN fin.body.obj :
                          f \notin Sensitive => d.body.obj[f] = fin.body.obj[f]
            /\ DOMAIN d.headers = DOMAIN fin.headers
            /\ \A h \in DOMAIN fin.headers :
                   h \notin Sensitive => d.headers[h] = fin.headers[h]

\* A body with a password and a name, and headers with an authorization, gone
\* through the sanitizers
C26_Witness ==
    /\ Captured
    /\ fin.body.defined
    /\ DOMAIN fin.body.obj = {"password", "name"}
    /\ fin.body.obj["password"] = "secret" /\ fin.body.obj["name"] = "secret"
    /\ fout.request_data.body.obj["password"] = "[REDACTED]"
    /\ fout.request_data.body.obj["name"] = "secret"
    /\ "authorization" \in DOMAIN fin.headers
    /\ fin.headers["authorization"] = "secret"
    /\ fout.request_data.headers["authorization"] = "[REDACTED]"

\* ---- the limiter of failed logins ----

C27_State ==
    \A id \in LoginIds :
        /\ login.last[id] = "ok" => login.calls[id] \in 1..5
        /\ login.last[id] = "Too many failed login attempts" => login.calls[id] >= 6
        /\ login.last[id] = "reset" =>
               login.calls[id] = 0 /\ login.store[id] = Absent

C27_Step ==
    /\ store' # store => login' = login
    /\ login' # login => (store' = store /\ req' = req)
    /\ Cardinality({id \in LoginIds :
                       \/ login'.store[id] # login.store[id]
                       \/ login'.calls[id] # login.calls[id]
                       \/ login'.last[id] # login.last[id]}) <= 1
    /\ \A id \in LoginIds :
           (login.last[id] = "reset" /\ login'.last[id] # "reset") =>
               login'.last[id] = "ok" /\ login'.calls[id] = 1

\* C27: the failed-login limiter is a distinct instance keyed by the
\* identifier. A step of the per-route rateLimiter never changes it, and a
\* check or reset never changes the per-route records or another
\* identifier's state; after resetLoginRateLimit(id), whatever the count or
\* block before, the next 5 checkLoginRateLimit(id) succeed and the 6th
\* within the window fails with 'Too many failed login attempts'.
C27_DistinctLoginLimiter == []C27_State /\ [][C27_Step]_vars

\* alice has been let through 5 times and refused the 6th in a later window,
\* bob has just been reset, and the per-route limiter holds a record
C27_Witness ==
    /\ login.last["alice"] = "Too many failed login attempts"
    /\ login.calls["alice"] = 6
    /\ login.store["alice"].expiresAt > 900000
    /\ login.last["bob"] = "reset"
    /\ store["auth"][<<"ip", "10.0.0.1">>].value > 0

\* ---- optionalAuth ----

\* C28: optionalAuth never rejects a request. Without a token, and with a
\* token that fails verification or names an unknown or inactive identity,
\* the request goes on without authentication: next() is called exactly
\* once, req.user stays unset, and no 401 or 403 is sent.
C28_NeverRejects ==
    \A r \in Slots :
        LET q == req[r]
            nexts == {i \in 1..Len(q.log) :
                        /\ q.log[i].ev = "next"
                        /\ q.log[i].mw \in {"optionalAuth", "authenticateToken"}}
        IN  (q.guard = "optional" /\ q.token \in {NoToken, BadToken, UnknownUser, "u3"})
            => /\ q.user = NoUser
               /\ \A i \in 1..Len(q.log) :
                      q.log[i].ev = "send" => q.log[i].status \notin {401, 403}
               /\ q.pc = "done" => Cardinality(nexts) = 1

\* ---- processClaim ----

\* C29: processClaim only changes claims in a processable status. Once a
\* claim's status is PAID, DENIED or PROCESSED no processClaim call changes
\* its status or amounts, also when two calls for the claim interleave
\* between the status check and the update.
C29_Step ==
    \A id \in ClaimIds :
        claimsTable[id].claim_status \in {"PAID", "DENIED", "PROCESSED"} =>
            /\ claimsTable'[id].claim_status = claimsTable[id].claim_status
            /\ claimsTable'[id].allowed_amount = claimsTable[id].allowed_amount
            /\ claimsTable'[id].paid_amount = claimsTable[id].paid_amount

C29_FinalStatusKept == [][C29_Step]_vars

\* The position of the first x in seq, 0 if there is none
IndexOf(seq, x) ==
    IF Has(seq, x) THEN CHOOSE i \in 1..Len(seq) :
                            seq[i] = x /\ \A j \in 1..(i - 1) : seq[j] # x
    ELSE 0

\* C30: for every request handled by auditLogger, a phi_access_log write is
\* attempted only if an audit_log write for the request was attempted before
\* it in the same post-response step; no request gets a PHI access record
\* without a preceding audit attempt, and a request gets at most one attempt
\* of each kind.
C30_PhiAfterAudit ==
    \A r \in Slots :
        LET post == req[r].post
        IN  /\ Has(post, "phi_attempt") =>
                   /\ Has(post, "audit_attempt")
                   /\ IndexOf(post, "finish") < IndexOf(post, "audit_attempt")
                   /\ IndexOf(post, "audit_attempt") < IndexOf(post, "phi_attempt")
            /\ Has(post, "phi_stored") => Has(post, "phi_attempt")
            /\ Times(post, "audit_attempt") <= 1
            /\ Times(post, "phi_attempt") <= 1

\* A request whose PHI access was stored after its audit row
C30_Witness ==
    \E r \in Slots :
        req[r].post = <<"finish", "audit_attempt", "audit_stored",
                        "phi_attempt", "phi_stored">>

====
